---------------------------- MODULE Spec2Model ----------------------------
(***************************************************************************)
(* latex2notion: the convert() pipeline of nyammar/MyUsefulApps.           *)
(*                                                                         *)
(* A string is a sequence of tokens.  A token is one character ("{", "$",  *)
(* " ", "#", ...), one LaTeX control sequence ("\\section", "\\begin",     *)
(* "\\(", ...) or one word ("quote", "a").  The regular expressions of     *)
(* LaTeXParser.patterns are written as matchers over such sequences; the   *)
(* f-strings and joins of the handlers are written as concatenations.      *)
(* A text is held as the list of its lines, that is, as text.split('\n').  *)
(* The token "BACKTICK" stands for the grave accent and "GLYPH" for the    *)
(* marker glyph of a callout.                                              *)
(***************************************************************************)
EXTENDS Integers, Sequences, FiniteSets, TLC

(***************************************************************************)
(* Bounds of the model.                                                    *)
(***************************************************************************)
\* the longest input, in lines
MaxLines == 3
\* the longest input of the environment specification, in lines
MaxEnvLines == 4
\* the longest input of the heading specification, in lines
MaxHeadingLines == 2
\* heading_level_offset ranges over -MaxOffset..MaxOffset
MaxOffset == 6
\* the longest input of the comment specification, in lines
MaxCommentLines == 3
\* the longest input of the list specification, in lines
MaxListLines == 4
\* ListHandler.convert is called with the levels 0..MaxLevel
MaxLevel == 2
\* the longest paragraph of the inline specification, in pieces
MaxPieces == 3
\* the longest input of the table specification, in lines
MaxTableLines == 4

\* SpecPair: the lines of a text
MaxPairLines == 2

\* SpecHandlers: the children of a hand-built paragraph or list item
MaxChildren == 2

\* SpecGui: the ticks of the clock and the calls of after()
MaxTime == 7

MaxTimers == 4

(***************************************************************************)
(* Strings.                                                                *)
(***************************************************************************)
\* the characters str.strip() removes and the regular expressions' \s matches
Whitespace == {" ", "\t", "\n"}

SetMin(S) == CHOOSE x \in S : \A y \in S : x <= y

SetMax(S) == CHOOSE x \in S : \A y \in S : x >= y

\* a strip that removes nothing
StripNothing(s) == s

\* str.strip()
Strip(s) ==
  LET keep == {k \in 1..Len(s) : s[k] \notin Whitespace}
  IN  IF keep = {} THEN <<>> ELSE SubSeq(s, SetMin(keep), SetMax(keep))

\* str.lstrip()
LStrip(s) ==
  LET keep == {k \in 1..Len(s) : s[k] \notin Whitespace}
  IN  IF keep = {} THEN <<>> ELSE SubSeq(s, SetMin(keep), Len(s))

\* sep.join(parts), for parts a sequence of strings
RECURSIVE Join(_, _)
Join(sep, parts) ==
  IF Len(parts) = 0 THEN <<>>
  ELSE IF Len(parts) = 1 THEN parts[1]
  ELSE parts[1] \o sep \o Join(sep, Tail(parts))

\* ''.join(parts)
RECURSIVE Concat(_)
Concat(parts) == IF Len(parts) = 0 THEN <<>> ELSE parts[1] \o Concat(Tail(parts))

\* 'c' * n
RECURSIVE Repeat(_, _)
Repeat(c, n) == IF n <= 0 THEN <<>> ELSE <<c>> \o Repeat(c, n - 1)

\* text.split(sep) for a one-token separator: always at least one piece
RECURSIVE Split(_, _)
Split(s, sep) ==
  LET at == {k \in 1..Len(s) : s[k] = sep}
  IN  IF at = {} THEN <<s>>
      ELSE <<SubSeq(s, 1, SetMin(at) - 1)>> \o Split(SubSeq(s, SetMin(at) + 1, Len(s)), sep)

\* c in s
Contains(s, c) == \E k \in 1..Len(s) : s[k] = c

\* s.startswith(c) for a one-token prefix
StartsWith(s, c) == Len(s) >= 1 /\ s[1] = c

(***************************************************************************)
(* Regular expressions (LaTeXParser.patterns).  A match is a record        *)
(* [ok, start, end, g1, g2] with start and end the 0-based offsets of      *)
(* match.start() and match.end().                                          *)
(***************************************************************************)
NoMatch == [ok |-> FALSE, start |-> 0, end |-> 0, g1 |-> <<>>, g2 |-> <<>>]

\* the least member of a set of positions, or `none` for the empty set
FirstOr(S, none) == IF S = {} THEN none ELSE SetMin(S)

\* the first position >= p of s that holds no whitespace (Len(s)+1 if none): \s*
SkipSpace(s, p) == FirstOr({k \in p..Len(s) : s[k] \notin Whitespace}, Len(s) + 1)

\* \{([^}]+)\} at position p (1-based): the position of the closing brace, or
\* 0 when there is no opening brace at p, no closing brace, or nothing between
BraceGroupEnd(s, p) ==
  IF p > Len(s) \/ s[p] # "{" \/ (p + 1 <= Len(s) /\ s[p + 1] = "}") THEN 0
  ELSE FirstOr({k \in (p + 1)..Len(s) : s[k] = "}"}, 0)

\* the match of a command whose one group lies between the braces at q and r
GroupMatch(s, start, q, r) ==
  IF r = 0 THEN NoMatch
  ELSE [ok |-> TRUE, start |-> start, end |-> r, g1 |-> SubSeq(s, q + 1, r - 1), g2 |-> <<>>]

\* \s*\{([^}]+)\} from position q, the whitespace skipped
BraceGroupAt(s, start, q) == GroupMatch(s, start, q, BraceGroupEnd(s, q))

\* \\cmd\s*\{([^}]+)\} anchored at position p (1-based)
CmdMatchAt(s, p, cmd) ==
  IF p > Len(s) \/ s[p] # cmd THEN NoMatch ELSE BraceGroupAt(s, p - 1, SkipSpace(s, p + 1))

\* the match of \href from the match m1 of its first group and the match m2 of its second
HrefJoin(m1, m2) ==
  IF ~m1.ok \/ ~m2.ok THEN NoMatch
  ELSE [ok |-> TRUE, start |-> m1.start, end |-> m2.end, g1 |-> m1.g1, g2 |-> m2.g1]

\* the second group of \href, after the match m1 of the first
HrefSecond(s, m1) ==
  IF ~m1.ok THEN NoMatch ELSE BraceGroupAt(s, m1.start, SkipSpace(s, m1.end + 1))

\* the match of \href from the match of its first group
HrefAfter(s, m1) == HrefJoin(m1, HrefSecond(s, m1))

\* a math match from position p with the closing delimiter found at r (0: none)
MathMatch(s, p, width, r, ok) ==
  IF r = 0 \/ ~ok THEN NoMatch
  ELSE [ok |-> TRUE, start |-> p - 1, end |-> r + width - 1,
        g1 |-> SubSeq(s, p + width, r - 1), g2 |-> <<>>]

\* the first "$" after position p, or 0
NextDollar(s, p) == FirstOr({k \in (p + 1)..Len(s) : s[k] = "$"}, 0)

\* \$\$([^$]+)\$\$ anchored at position p (1-based), its closing "$$" sought at r
MathDisplayClose(s, p, r) ==
  MathMatch(s, p, 2, r, r > p + 2 /\ r + 1 <= Len(s) /\ s[r + 1] = "$")

MathDisplayAt(s, p) ==
  IF p + 1 > Len(s) \/ s[p] # "$" \/ s[p + 1] # "$" THEN NoMatch
  ELSE MathDisplayClose(s, p, NextDollar(s, p + 1))

\* (?<!\$)\$(?!\$)([^$]+)\$(?!\$) anchored at position p (1-based), its closing "$" sought at r
MathInlineClose(s, p, r) ==
  MathMatch(s, p, 1, r, r > p + 1 /\ ~(r + 1 <= Len(s) /\ s[r + 1] = "$"))

MathInlineAt(s, p) ==
  IF p > Len(s) \/ s[p] # "$" \/ (p > 1 /\ s[p - 1] = "$") THEN NoMatch
  ELSE MathInlineClose(s, p, NextDollar(s, p))

\* open(.*?)close with DOTALL, anchored at position p (1-based)
DelimMatchAt(s, p, open, close) ==
  IF p > Len(s) \/ s[p] # open THEN NoMatch
  ELSE MathMatch(s, p, 1, FirstOr({k \in (p + 1)..Len(s) : s[k] = close}, 0), TRUE)

\* the patterns that are one command with one braced group, and their commands
CommandOf ==
  [section |-> "\\section", subsection |-> "\\subsection",
   subsubsection |-> "\\subsubsection", textbf |-> "\\textbf", textit |-> "\\textit",
   texttt |-> "\\texttt", href |-> "\\href", begin_env |-> "\\begin", end_env |-> "\\end"]

\* the patterns that are a pair of delimiters, and their delimiters
DelimitersOf ==
  [math_display_brackets |-> <<"\\[", "\\]">>, math_inline_parens |-> <<"\\(", "\\)">>]

\* a match of a command pattern, completed when the pattern is href
Complete(pat, s, m) == IF pat = "href" THEN HrefAfter(s, m) ELSE m

\* the patterns of the table, each anchored at position p (1-based)
MatchAt(pat, s, p) ==
  IF pat \in DOMAIN CommandOf THEN Complete(pat, s, CmdMatchAt(s, p, CommandOf[pat]))
  ELSE IF pat = "math_inline" THEN MathInlineAt(s, p)
  ELSE IF pat = "math_display" THEN MathDisplayAt(s, p)
  ELSE DelimMatchAt(s, p, DelimitersOf[pat][1], DelimitersOf[pat][2])

\* the match at the least of the positions `hits`
MatchAtFirst(pat, s, hit) == IF hit = 0 THEN NoMatch ELSE MatchAt(pat, s, hit)

\* pattern.search(s, from): the leftmost match starting at offset >= from (0-based)
SearchFrom(pat, s, from) ==
  MatchAtFirst(pat, s, FirstOr({p \in (from + 1)..Len(s) : MatchAt(pat, s, p).ok}, 0))

\* pattern.search(s)
Search(pat, s) == SearchFrom(pat, s, 0)

\* pattern.finditer(s): the matches left to right, each starting at or after
\* the end of the one before
RECURSIVE FindIterFrom(_, _, _)
FindIterNext(pat, s, m) == IF ~m.ok THEN <<>> ELSE <<m>> \o FindIterFrom(pat, s, m.end)

FindIterFrom(pat, s, from) == FindIterNext(pat, s, SearchFrom(pat, s, from))

FindIter(pat, s) == FindIterFrom(pat, s, 0)

(***************************************************************************)
(* The AST (parser.py, NodeType and ASTNode).  A content is None, a str    *)
(* or a list of str; attributes is a dict, here a function on its keys.    *)
(***************************************************************************)
NodeType ==
  {"document", "section", "subsection", "subsubsection", "paragraph",
   "math_inline", "math_display", "text", "bold", "italic", "code", "link",
   "list_itemize", "list_enumerate", "list_item", "table", "quote",
   "verbatim", "code_block"}

None == [t |-> "none", s |-> <<>>, cells |-> <<>>]

Str(s) == [t |-> "str", s |-> s, cells |-> <<>>]

StrList(cells) == [t |-> "list", s |-> <<>>, cells |-> cells]

EmptyDict == [k \in {} |-> 0]

\* ASTNode(node_type, content, children, attributes)
ASTNode(node_type, content, children, attributes) ==
  [node_type |-> node_type, content |-> content,
   children |-> children, attributes |-> attributes]

\* dict.get(key, default)
DictGet(d, key, default) == IF key \in DOMAIN d THEN d[key] ELSE default

(***************************************************************************)
(* The inline scanner (LaTeXParser._parse_paragraph).                      *)
(***************************************************************************)
\* one entry of elements
Element(type, m) ==
  [type |-> type, start |-> m.start, end |-> m.end, g1 |-> m.g1, g2 |-> m.g2]

\* the matches of one pattern, tagged
Tagged(type, ms) == [k \in 1..Len(ms) |-> Element(type, ms[k])]

\* the eight finditer loops in their order: the tag and the pattern of each
ElementPatterns ==
  << <<"math_display", "math_display">>,
     <<"math_inline", "math_inline">>,
     <<"math_display", "math_display_brackets">>,
     <<"math_inline", "math_inline_parens">>,
     <<"textbf", "textbf">>,
     <<"textit", "textit">>,
     <<"code", "texttt">>,
     <<"href", "href">> >>

\* elements before the sort, from the k-th loop on
RECURSIVE CollectFrom(_, _)
CollectFrom(text, k) ==
  IF k > Len(ElementPatterns) THEN <<>>
  ELSE Tagged(ElementPatterns[k][1], FindIter(ElementPatterns[k][2], text))
         \o CollectFrom(text, k + 1)

\* elements before the sort with the four math loops left out
CollectFormatting(text) == CollectFrom(text, 5)

CollectElements(text) == CollectFrom(text, 1)

\* e placed after the first n entries of the sorted list
InsertAfter(sorted, n, e) ==
  SubSeq(sorted, 1, n) \o <<e>> \o SubSeq(sorted, n + 1, Len(sorted))

\* e placed after every entry of the sorted list whose start is <= its own
InsertByStart(sorted, e) ==
  InsertAfter(sorted, Cardinality({k \in 1..Len(sorted) : sorted[k].start <= e.start}), e)

\* elements.sort(key=lambda x: x[1]): stable
RECURSIVE SortByStartFrom(_, _, _)
SortByStartFrom(elems, k, sorted) ==
  IF k > Len(elems) THEN sorted
  ELSE SortByStartFrom(elems, k + 1, InsertByStart(sorted, elems[k]))

SortByStart(elems) == SortByStartFrom(elems, 1, <<>>)

\* the node kind of each element tag
ElementKind ==
  [math_inline |-> "math_inline", math_display |-> "math_display", textbf |-> "bold",
   textit |-> "italic", code |-> "code", href |-> "link"]

\* the node of one element
ElementNode(e) ==
  IF e.type = "href" THEN ASTNode("link", Str(e.g2), <<>>, [url |-> e.g1])
  ELSE ASTNode(ElementKind[e.type], Str(e.g1), <<>>, EmptyDict)

\* text[a:b] for 0 <= a
Slice(text, a, b) == SubSeq(text, a + 1, b)

\* a Text node for a gap text[a:b], unless a >= b or the gap is whitespace only
GapNodes(text, a, b) ==
  IF a < b /\ Strip(Slice(text, a, b)) # <<>>
  THEN <<ASTNode("text", Str(Slice(text, a, b)), <<>>, EmptyDict)>> ELSE <<>>

\* the walk over the sorted elements and the remaining text: para.children
RECURSIVE WalkElements(_, _, _, _)
WalkElements(text, elems, k, pos) ==
  IF k > Len(elems) THEN GapNodes(text, pos, Len(text))
  ELSE GapNodes(text, pos, elems[k].start) \o <<ElementNode(elems[k])>>
         \o WalkElements(text, elems, k + 1, elems[k].end)

\* the fallback: the whole text as one Text node when nothing was emitted
WithFallback(text, children) ==
  IF children = <<>> /\ Strip(text) # <<>>
  THEN <<ASTNode("text", Str(text), <<>>, EmptyDict)>> ELSE children

\* LaTeXParser._parse_paragraph(text)
ParseParagraph(text) ==
  ASTNode("paragraph", None,
          WithFallback(text, WalkElements(text, SortByStart(CollectElements(text)), 1, 0)),
          EmptyDict)

(***************************************************************************)
(* The environment bodies (LaTeXParser._parse_list_items, _parse_table).   *)
(***************************************************************************)
\* the first position of \item in a line, or 0
ItemAt(line) == FirstOr({k \in 1..Len(line) : line[k] = "\\item"}, 0)

\* \\item\s*(.*): match.group(1).strip() of a line with \item at position p
ItemText(line, p) == Strip(SubSeq(line, SkipSpace(line, p + 1), Len(line)))

\* current_item_content as a new item starts
NewItem(item_text_after_item) ==
  IF item_text_after_item # <<>> THEN <<item_text_after_item>> ELSE <<>>

\* the loop of _parse_list_items from line k on: the values current_item_content
\* has each time the code tests it to save an item
RECURSIVE ItemContents(_, _, _)
ItemContentsAt(lns, k, current, p) ==
  IF p # 0 THEN <<current>> \o ItemContents(lns, k + 1, NewItem(ItemText(lns[k], p)))
  ELSE ItemContents(lns, k + 1, Append(current, lns[k]))

ItemContents(lns, k, current) ==
  IF k > Len(lns) THEN <<current>> ELSE ItemContentsAt(lns, k, current, ItemAt(lns[k]))

\* the item node of a text that is not blank
ItemNodeOf(item_text) ==
  IF item_text # <<>>
  THEN <<ASTNode("list_item", None, ParseParagraph(item_text).children, EmptyDict)>>
  ELSE <<>>

\* the item node saved for one value of current_item_content, if any
ItemNodes(current_item_content) ==
  IF current_item_content # <<>>
  THEN ItemNodeOf(Strip(Join(<<"\n">>, current_item_content))) ELSE <<>>

\* the nodes of a sequence of values of current_item_content
AllItemNodes(contents) == Concat([k \in 1..Len(contents) |-> ItemNodes(contents[k])])

\* LaTeXParser._parse_list_items(content)
ParseListItems(content) == AllItemNodes(ItemContents(Split(content, "\n"), 1, <<>>))

\* the cells of the pieces of a line
Cells(pieces) == [k \in 1..Len(pieces) |-> Strip(pieces[k])]

\* the row node of one table line
RowNode(line) == ASTNode("text", StrList(Cells(Split(line, "&"))), <<>>, EmptyDict)

\* the row node of every line that holds an '&', comment lines included
RowNodesOfComments(line) == IF Contains(line, "&") THEN <<RowNode(line)>> ELSE <<>>

\* the row node of a line, if the line is a row
RowNodes(line) ==
  IF Contains(line, "&") /\ ~StartsWith(Strip(line), "%") THEN <<RowNode(line)>> ELSE <<>>

\* the rows of a sequence of lines
AllRowNodes(lns) == Concat([k \in 1..Len(lns) |-> RowNodes(lns[k])])

\* LaTeXParser._parse_table(content)
ParseTable(content) == AllRowNodes(Split(content, "\n"))

(***************************************************************************)
(* The environment resolver (LaTeXParser._parse_environment), after its    *)
(* scan: the node built from the collected body.                           *)
(***************************************************************************)
\* env_map
EnvMapTable ==
  [itemize |-> "list_itemize", enumerate |-> "list_enumerate", quote |-> "quote",
   verbatim |-> "verbatim", lstlisting |-> "code_block", table |-> "table",
   tabular |-> "table"]

\* env_map with the tabular entry left out
EnvMapNoTabular(env_name) ==
  IF Len(env_name) = 1 /\ env_name[1] \in DOMAIN EnvMapTable \ {"tabular"}
  THEN EnvMapTable[env_name[1]] ELSE "paragraph"

\* env_map.get(env_name, NodeType.PARAGRAPH): a name is a key when it is one word
EnvMap(env_name) ==
  IF Len(env_name) = 1 /\ env_name[1] \in DOMAIN EnvMapTable
  THEN EnvMapTable[env_name[1]] ELSE "paragraph"

\* the body dispatch with the list branch taken for every environment
EnvChildrenAllItems(env_name, env_content) == ParseListItems(env_content)

\* the children the body dispatch gives the node
EnvChildren(env_name, env_content) ==
  IF env_name \in {<<"itemize">>, <<"enumerate">>} THEN ParseListItems(env_content)
  ELSE IF env_name \in {<<"table">>, <<"tabular">>} THEN ParseTable(env_content)
  ELSE <<>>

\* the node of an environment with a given body text
EnvNodeOf(env_name, env_content, end_line) ==
  ASTNode(EnvMap(env_name), Str(env_content), EnvChildren(env_name, env_content),
          [end_line |-> end_line, env_name |-> env_name])

\* the node _parse_environment returns
EnvNode(env_name, env_content_lines, end_line) ==
  EnvNodeOf(env_name, Join(<<"\n">>, env_content_lines), end_line)

(***************************************************************************)
(* The renderers (handlers/*.py).                                          *)
(***************************************************************************)
\* f"{content}"
Format(content) ==
  CASE content.t = "str"  -> content.s
    [] content.t = "none" -> <<"None">>
    [] content.t = "list" -> <<"[", "]">>

\* MathHandler.convert(node)
MathConvert(node) ==
  IF node.node_type = "math_inline"
  THEN <<"\\(">> \o Format(node.content) \o <<"\\)">>
  ELSE IF node.node_type = "math_display"
  THEN <<"\\[", "\n">> \o Format(node.content) \o <<"\n", "\\]">>
  ELSE <<>>

\* MathHandler.is_math_node(node)
IsMathNode(node) == node.node_type \in {"math_inline", "math_display"}

\* InlineHandler.convert(node)
InlineConvert(node) ==
  CASE node.node_type = "bold"   -> <<"*", "*">> \o Format(node.content) \o <<"*", "*">>
    [] node.node_type = "italic" -> <<"*">> \o Format(node.content) \o <<"*">>
    [] node.node_type = "code"   -> <<"BACKTICK">> \o Format(node.content) \o <<"BACKTICK">>
    [] node.node_type = "link"   ->
         <<"[">> \o Format(node.content) \o <<"]", "(">>
           \o DictGet(node.attributes, "url", <<>>) \o <<")">>
    [] node.node_type = "text"   -> node.content.s
    [] OTHER                     -> <<>>

\* BlockHandler.convert_heading(node)
ConvertHeading(node) ==
  CASE node.node_type = "section"       -> <<"#", " ">> \o Format(node.content)
    [] node.node_type = "subsection"    -> <<"#", "#", " ">> \o Format(node.content)
    [] node.node_type = "subsubsection" -> <<"#", "#", "#", " ">> \o Format(node.content)
    [] OTHER                            -> <<>>

\* BlockHandler.convert_quote(node)
ConvertQuote(node) ==
  <<">", " ", "GLYPH", " ">>
    \o (IF node.content.t = "str" THEN Strip(node.content.s) ELSE <<>>)

\* BlockHandler.convert_code_block(node)
ConvertCodeBlock(node) ==
  <<"BACKTICK", "BACKTICK", "BACKTICK", "\n">>
    \o (IF node.content.t = "str" THEN Strip(node.content.s) ELSE <<>>)
    \o <<"\n", "BACKTICK", "BACKTICK", "BACKTICK">>

\* one entry of parts, the url of a link read without a default
InlinePartUrlNone(child) ==
  CASE child.node_type = "text"   -> child.content.s
    [] child.node_type = "bold"   -> <<"*", "*">> \o Format(child.content) \o <<"*", "*">>
    [] child.node_type = "italic" -> <<"*">> \o Format(child.content) \o <<"*">>
    [] child.node_type = "code"   -> <<"BACKTICK">> \o Format(child.content) \o <<"BACKTICK">>
    [] child.node_type = "link"   ->
         <<"[">> \o Format(child.content) \o <<"]", "(">>
           \o DictGet(child.attributes, "url", <<"None">>) \o <<")">>
    [] child.node_type \in {"math_inline", "math_display"} -> MathConvert(child)
    [] OTHER                      -> <<>>

\* one entry of parts in convert_paragraph and _process_item_content
InlinePart(child) ==
  CASE child.node_type = "text"   -> child.content.s
    [] child.node_type = "bold"   -> <<"*", "*">> \o Format(child.content) \o <<"*", "*">>
    [] child.node_type = "italic" -> <<"*">> \o Format(child.content) \o <<"*">>
    [] child.node_type = "code"   -> <<"BACKTICK">> \o Format(child.content) \o <<"BACKTICK">>
    [] child.node_type = "link"   ->
         <<"[">> \o Format(child.content) \o <<"]", "(">>
           \o DictGet(child.attributes, "url", <<>>) \o <<")">>
    [] child.node_type \in {"math_inline", "math_display"} -> MathConvert(child)
    [] OTHER                      -> <<>>

\* ''.join(parts) raises TypeError when a part is no str: a Text child's
\* content is appended as it is
PartRaises(child) == child.node_type = "text" /\ child.content.t # "str"

\* BlockHandler.convert_paragraph(node, inline_handler)
ConvertParagraph(node) ==
  Concat([k \in 1..Len(node.children) |-> InlinePart(node.children[k])])

ConvertParagraphRaises(node) ==
  \E k \in 1..Len(node.children) : PartRaises(node.children[k])

\* BlockHandler.is_heading(node)
IsHeading(node) == node.node_type \in {"section", "subsection", "subsubsection"}

\* BlockHandler.is_block_environment(node)
IsBlockEnvironment(node) == node.node_type \in {"quote", "verbatim", "code_block"}

\* ListHandler._convert_inline_node(node)
ConvertInlineNode(node) == InlinePart(node)

\* the entries one child of a list item adds to parts
ItemChildPart(child) ==
  IF child.node_type = "paragraph"
  THEN Concat([k \in 1..Len(child.children) |-> ConvertInlineNode(child.children[k])])
  ELSE InlinePart(child)

\* ListHandler._process_item_content(item_node)
ProcessItemContent(item_node) ==
  Concat([k \in 1..Len(item_node.children) |-> ItemChildPart(item_node.children[k])])

ProcessItemContentRaises(item_node) ==
  \E k \in 1..Len(item_node.children) :
    \/ PartRaises(item_node.children[k])
    \/ /\ item_node.children[k].node_type = "paragraph"
       /\ \E m \in 1..Len(item_node.children[k].children) :
            PartRaises(item_node.children[k].children[m])

\* the line of one child with an indent of one space per level
ListLinesOneSpace(node, level, k) ==
  IF node.children[k].node_type # "list_item" THEN <<>>
  ELSE <<Repeat(" ", level)
           \o (IF node.node_type = "list_enumerate" THEN <<"1", ".", " ">> ELSE <<"-", " ">>)
           \o ProcessItemContent(node.children[k])>>

\* the line of one child of a list node (none for a child that is no ListItem)
ListLines(node, level, k) ==
  IF node.children[k].node_type # "list_item" THEN <<>>
  ELSE <<Repeat(" ", 2 * level)
           \o (IF node.node_type = "list_enumerate" THEN <<"1", ".", " ">> ELSE <<"-", " ">>)
           \o ProcessItemContent(node.children[k])>>

\* ListHandler.convert(node, level)
ListConvert(node, level) ==
  Join(<<"\n">>, Concat([k \in 1..Len(node.children) |-> ListLines(node, level, k)]))

ListConvertRaises(node) ==
  \E k \in 1..Len(node.children) :
    node.children[k].node_type = "list_item" /\ ProcessItemContentRaises(node.children[k])

\* ListHandler.is_list_node(node)
IsListNode(node) == node.node_type \in {"list_itemize", "list_enumerate"}

\* the cell as it is, no pipe escaped
KeepPipes(cell) == cell

\* str(cell).replace('|', '\\|')
RECURSIVE EscapePipes(_)
EscapePipes(cell) ==
  IF Len(cell) = 0 THEN <<>>
  ELSE (IF cell[1] = "|" THEN <<"\\", "|">> ELSE <<cell[1]>>) \o EscapePipes(Tail(cell))

\* the line of one row node (none for a row whose content is no list)
RowLines(row_node) ==
  IF row_node.content.t # "list" THEN <<>>
  ELSE LET cells == row_node.content.cells
       IN  <<<<"|", " ">>
               \o Join(<<" ", "|", " ">>, [k \in 1..Len(cells) |-> EscapePipes(cells[k])])
               \o <<" ", "|">>>>

\* the header separator: num_cols is counted in the rendered first row
Separator(first_row) ==
  LET num_cols == Len(Split(first_row, "|")) - 2
  IN  <<"|", " ">>
        \o Join(<<" ", "|", " ">>, [k \in 1..num_cols |-> <<"-", "-", "-">>])
        \o <<" ", "|">>

\* the rows joined without the header separator
TableConvertNoSeparator(node) ==
  Join(<<"\n">>, Concat([k \in 1..Len(node.children) |-> RowLines(node.children[k])]))

\* TableHandler.convert(node)
TableConvert(node) ==
  LET rows == Concat([k \in 1..Len(node.children) |-> RowLines(node.children[k])])
  IN  IF rows = <<>> THEN <<>>
      ELSE Join(<<"\n">>, <<rows[1], Separator(rows[1])>> \o Tail(rows))

\* TableHandler.is_table_node(node)
IsTableNode(node) == node.node_type = "table"

(***************************************************************************)
(* The converter (converter.py, NotionConverter).                          *)
(***************************************************************************)
\* the number of leading '#' of a heading
RECURSIVE CountHashes(_)
CountHashes(heading) ==
  IF Len(heading) > 0 /\ heading[1] = "#" THEN 1 + CountHashes(Tail(heading)) ELSE 0

\* the level bounded below only: max(1, level + offset)
ClampLevelNoCeiling(n) == IF n < 1 THEN 1 ELSE n

\* max(1, min(6, level + offset))
ClampLevel(n) == IF n < 1 THEN 1 ELSE IF n > 6 THEN 6 ELSE n

\* NotionConverter._adjust_heading_level(heading, offset)
AdjustHeadingLevel(heading, offset) ==
  IF ~StartsWith(heading, "#") THEN heading
  ELSE LET level == CountHashes(heading)
           rest == LStrip(SubSeq(heading, level + 1, Len(heading)))
       IN  Repeat("#", ClampLevel(level + offset)) \o <<" ">> \o rest

\* NotionConverter._convert_node(node)
ConvertNode(node, heading_level_offset) ==
  IF IsHeading(node)
  THEN IF heading_level_offset # 0
       THEN AdjustHeadingLevel(ConvertHeading(node), heading_level_offset)
       ELSE ConvertHeading(node)
  ELSE IF IsListNode(node) THEN ListConvert(node, 0)
  ELSE IF IsTableNode(node) THEN TableConvert(node)
  ELSE IF node.node_type = "quote" THEN ConvertQuote(node)
  ELSE IF node.node_type \in {"verbatim", "code_block"} THEN ConvertCodeBlock(node)
  ELSE IF node.node_type = "paragraph" THEN ConvertParagraph(node)
  ELSE IF IsMathNode(node) THEN MathConvert(node)
  ELSE <<>>

\* an exception leaves _convert_node
ConvertNodeRaises(node) ==
  \/ IsListNode(node) /\ ListConvertRaises(node)
  \/ node.node_type = "paragraph" /\ ConvertParagraphRaises(node)

\* blocks with the empty renderings kept
BlocksWithEmpty(ast, heading_level_offset) ==
  [k \in 1..Len(ast.children) |-> ConvertNode(ast.children[k], heading_level_offset)]

\* blocks: the non-empty renderings of the children, in order
Blocks(ast, heading_level_offset) ==
  LET block(k) == ConvertNode(ast.children[k], heading_level_offset)
  IN  Concat([k \in 1..Len(ast.children) |->
                IF block(k) # <<>> THEN <<block(k)>> ELSE <<>>])

\* NotionConverter.convert(ast)
NotionConvert(ast, heading_level_offset) ==
  IF ast.node_type # "document" THEN <<>>
  ELSE Join(<<"\n", "\n">>, Blocks(ast, heading_level_offset))

NotionConvertRaises(ast) ==
  /\ ast.node_type = "document"
  /\ \E k \in 1..Len(ast.children) : ConvertNodeRaises(ast.children[k])

(***************************************************************************)
(* The steps of convert() and of LaTeXParser.parse that the actions use.   *)
(***************************************************************************)
\* the pre-pass that removes nothing
KeepComment(line) == line

\* re.sub(r'%.*$', '', latex_string, flags=re.MULTILINE), line by line
StripComment(line) ==
  LET at == {k \in 1..Len(line) : line[k] = "%"}
  IN  IF at = {} THEN line ELSE SubSeq(line, 1, SetMin(at) - 1)

StripComments(lns) == [k \in 1..Len(lns) |-> StripComment(lns[k])]

\* line = lines[i], the strip forgotten
LineAtRaw(lns, idx) == lns[idx + 1]

\* line = lines[i].strip(), for the 0-based index i
LineAt(lns, idx) == Strip(lns[idx + 1])

\* the heading pattern that wins on a line: the three searches in their order
HeadingPattern(line) ==
  IF Search("section", line).ok THEN "section"
  ELSE IF Search("subsection", line).ok THEN "subsection"
  ELSE IF Search("subsubsection", line).ok THEN "subsubsection"
  ELSE "none"

\* the heading node of a line on which a heading pattern matches
HeadingNode(line) ==
  ASTNode(HeadingPattern(line), Str(Search(HeadingPattern(line), line).g1), <<>>, EmptyDict)

\* the scan with the comparison of the names left out: every \end closes
ScanStepAnyEnd(line, name, d) ==
  IF Search("begin_env", line).ok
  THEN [depth |-> d + 1, append |-> TRUE, brk |-> FALSE]
  ELSE IF Search("end_env", line).ok
  THEN IF d - 1 = 0
       THEN [depth |-> d - 1, append |-> FALSE, brk |-> TRUE]
       ELSE [depth |-> d - 1, append |-> TRUE, brk |-> FALSE]
  ELSE [depth |-> d, append |-> TRUE, brk |-> FALSE]

\* one iteration of the scan of _parse_environment: the counter after the
\* line, whether the line joins the body, whether the scan breaks
ScanStep(line, name, d) ==
  IF Search("begin_env", line).ok
  THEN [depth |-> d + 1, append |-> TRUE, brk |-> FALSE]
  ELSE IF Search("end_env", line).ok
  THEN IF Search("end_env", line).g1 = name
       THEN IF d - 1 = 0
            THEN [depth |-> d - 1, append |-> FALSE, brk |-> TRUE]
            ELSE [depth |-> d - 1, append |-> TRUE, brk |-> FALSE]
       ELSE [depth |-> d, append |-> TRUE, brk |-> FALSE]
  ELSE [depth |-> d, append |-> TRUE, brk |-> FALSE]

\* the main scan resumed at the line after the \begin line
ResumeAfterBegin(env_node, idx) == idx + 1

\* the main scan resumed at the \end line itself
ResumeAtEndLine(env_node, idx) == DictGet(env_node.attributes, "end_line", idx + 1)

\* i = env_node.attributes.get('end_line', i + 1) + 1
ResumeIndex(env_node, idx) == DictGet(env_node.attributes, "end_line", idx + 1) + 1

\* what a paragraph line appends to root.children
ParagraphNodes(line) ==
  IF ParseParagraph(line).children # <<>> THEN <<ParseParagraph(line)>> ELSE <<>>

(***************************************************************************)
(* The state: one call of convert(latex_string, math_mode,                 *)
(* heading_level_offset, preserve_comments).                               *)
(***************************************************************************)
VARIABLES
  pc,                   \* "start", "parse", "scan", "done", "handled"; "idle": no call
  text,                 \* latex_string, as its lines
  preserve_comments,    \* the option, once convert has read it
  lines,                \* parse: lines
  i,                    \* parse: the 0-based index of the main scan
  root,                 \* parse: the Document node
  env_name,             \* _parse_environment: the name of the opened environment
  start_line,           \* _parse_environment: the index of the \begin line
  depth,                \* _parse_environment: the depth counter
  end_line,             \* _parse_environment: end_line
  env_content_lines,    \* _parse_environment: the body collected so far
  scan_i,               \* _parse_environment: the index of its for loop
  heading_level_offset, \* the option, once the converter is built
  math_mode,            \* the option, once the converter is built
  level,                \* ListHandler.convert: the nesting level it is called with
  outcome,              \* "running", "returned" or "raised"
  output,               \* the string convert returns
  other,                \* a second call of convert, not running now: its state
  auto_convert,         \* editor: auto_convert_var
  convert_timer,        \* editor: convert_timer, the id after() gave (0: None)
  timers,               \* editor: the callbacks scheduled with after(), not yet run
  now,                  \* editor: the time, in ticks
  next_id,              \* editor: the id the next after() gives
  input_text,           \* editor: the text of the input widget
  output_text,          \* editor: the text of the output widget
  output_state,         \* editor: the state of the output widget
  status,               \* editor: the text of the status label
  handler               \* editor: the callback that is running, or "idle"

vars ==
  <<pc, text, preserve_comments, lines, i, root, env_name, start_line, depth,
    end_line, env_content_lines, scan_i, heading_level_offset, math_mode,
    level, outcome, output, other, auto_convert, convert_timer, timers, now,
    next_id, input_text, output_text, output_state, status, handler>>

\* the variables of the editor
gui ==
  <<auto_convert, convert_timer, timers, now, next_id, input_text, output_text,
    output_state, status, handler>>

\* the variables of a call of convert
convert_call ==
  <<pc, text, preserve_comments, lines, i, root, env_name, start_line, depth,
    end_line, env_content_lines, scan_i, heading_level_offset, math_mode,
    level, outcome, output>>

resolver == <<env_name, start_line, depth, end_line, env_content_lines, scan_i>>

options == <<heading_level_offset, math_mode, level>>

\* the texts of 1..n lines drawn from a set of lines
Texts(lineset, n) == UNION {[1..m -> lineset] : m \in 1..n}

\* the state of one call of convert before it starts
NewCall(latex_string) ==
  [pc |-> "start", text |-> latex_string, preserve_comments |-> FALSE, lines |-> <<>>,
   i |-> 0, root |-> ASTNode("document", None, <<>>, EmptyDict), env_name |-> <<>>,
   start_line |-> 0, depth |-> 0, end_line |-> 0, env_content_lines |-> <<>>,
   scan_i |-> 0, heading_level_offset |-> 0, math_mode |-> "katex", level |-> 0,
   outcome |-> "running", output |-> <<>>]

\* no second call
NoCall == [NewCall(<<>>) EXCEPT !.pc = "none"]

\* the state of a call becomes that of the call that runs now
Resume(call) ==
  /\ pc' = call.pc
  /\ text' = call.text
  /\ preserve_comments' = call.preserve_comments
  /\ lines' = call.lines
  /\ i' = call.i
  /\ root' = call.root
  /\ env_name' = call.env_name
  /\ start_line' = call.start_line
  /\ depth' = call.depth
  /\ end_line' = call.end_line
  /\ env_content_lines' = call.env_content_lines
  /\ scan_i' = call.scan_i
  /\ heading_level_offset' = call.heading_level_offset
  /\ math_mode' = call.math_mode
  /\ level' = call.level
  /\ outcome' = call.outcome
  /\ output' = call.output

\* the state of the call that runs now
Running ==
  [pc |-> pc, text |-> text, preserve_comments |-> preserve_comments, lines |-> lines,
   i |-> i, root |-> root, env_name |-> env_name, start_line |-> start_line,
   depth |-> depth, end_line |-> end_line, env_content_lines |-> env_content_lines,
   scan_i |-> scan_i, heading_level_offset |-> heading_level_offset,
   math_mode |-> math_mode, level |-> level, outcome |-> outcome, output |-> output]

\* the call that runs now is in a given state
InitCall(call) ==
  /\ pc = call.pc
  /\ text = call.text
  /\ preserve_comments = call.preserve_comments
  /\ lines = call.lines
  /\ i = call.i
  /\ root = call.root
  /\ env_name = call.env_name
  /\ start_line = call.start_line
  /\ depth = call.depth
  /\ end_line = call.end_line
  /\ env_content_lines = call.env_content_lines
  /\ scan_i = call.scan_i
  /\ heading_level_offset = call.heading_level_offset
  /\ math_mode = call.math_mode
  /\ level = call.level
  /\ outcome = call.outcome
  /\ output = call.output

\* LaTeX2NotionGUI.__init__: the editor with a text in its input widget and
\* a callback running
InitEditor(content, callback) ==
  /\ auto_convert = TRUE
  /\ convert_timer = 0
  /\ timers = {}
  /\ now = 0
  /\ next_id = 1
  /\ input_text = content
  /\ output_text = <<>>
  /\ output_state = "disabled"
  /\ status = [text |-> "Ready", foreground |-> "green"]
  /\ handler = callback

InitWith(texts) ==
  /\ \E latex_string \in texts : InitCall(NewCall(latex_string))
  /\ other = NoCall
  /\ InitEditor(<<>>, "idle")

\* convert, lines 30-37: the comment pre-pass, then parse starts
Convert(preserve) ==
  /\ pc = "start"
  /\ \E p \in preserve :
       /\ preserve_comments' = p
       /\ lines' = IF p THEN text ELSE StripComments(text)
  /\ root' = ASTNode("document", None, <<>>, EmptyDict)
  /\ i' = 0
  /\ pc' = "parse"
  /\ UNCHANGED <<other, gui, text, resolver, options, outcome, output>>

\* parse, lines 88-90: a blank line
ParseBlank ==
  /\ pc = "parse"
  /\ i < Len(lines)
  /\ LineAt(lines, i) = <<>>
  /\ i' = i + 1
  /\ UNCHANGED <<other, gui, pc, text, preserve_comments, lines, root, resolver, options,
                 outcome, output>>

\* parse, lines 92-109: a heading line
ParseHeading ==
  /\ pc = "parse"
  /\ i < Len(lines)
  /\ LineAt(lines, i) # <<>>
  /\ HeadingPattern(LineAt(lines, i)) # "none"
  /\ root' = [root EXCEPT !.children = Append(@, HeadingNode(LineAt(lines, i)))]
  /\ i' = i + 1
  /\ UNCHANGED <<other, gui, pc, text, preserve_comments, lines, resolver, options,
                 outcome, output>>

\* parse, lines 112-115 and _parse_environment, lines 134-136: the resolver is called
ParseBeginEnv ==
  /\ pc = "parse"
  /\ i < Len(lines)
  /\ LineAt(lines, i) # <<>>
  /\ HeadingPattern(LineAt(lines, i)) = "none"
  /\ Search("begin_env", LineAt(lines, i)).ok
  /\ env_name' = Search("begin_env", LineAt(lines, i)).g1
  /\ start_line' = i
  /\ depth' = 1
  /\ end_line' = i + 1
  /\ env_content_lines' = <<>>
  /\ scan_i' = i + 1
  /\ pc' = "scan"
  /\ UNCHANGED <<other, gui, text, preserve_comments, lines, i, root, options, outcome, output>>

\* _parse_environment, lines 139-157: one iteration of the scan
ScanLine ==
  /\ pc = "scan"
  /\ depth > 0
  /\ scan_i < Len(lines)
  /\ LET st == ScanStep(lines[scan_i + 1], env_name, depth)
     IN  /\ depth' = st.depth
         /\ env_content_lines' =
              IF st.append THEN Append(env_content_lines, lines[scan_i + 1])
              ELSE env_content_lines
         /\ end_line' = IF st.brk THEN scan_i ELSE end_line
         /\ scan_i' = IF st.brk THEN scan_i ELSE scan_i + 1
  /\ UNCHANGED <<other, gui, pc, text, preserve_comments, lines, i, root, env_name, start_line,
                 options, outcome, output>>

\* _parse_environment, lines 159-186 and parse, lines 116-120: the node is
\* built and appended, and the main scan resumes
EnvReturn ==
  /\ pc = "scan"
  /\ depth = 0 \/ scan_i >= Len(lines)
  /\ LET env_node == EnvNode(env_name, env_content_lines, end_line)
     IN  /\ root' = [root EXCEPT !.children = Append(@, env_node)]
         /\ i' = ResumeIndex(env_node, i)
  /\ pc' = "parse"
  /\ UNCHANGED <<other, gui, text, preserve_comments, lines, resolver, options, outcome, output>>

\* parse, lines 122-127: a paragraph line
ParseParagraphLine ==
  /\ pc = "parse"
  /\ i < Len(lines)
  /\ LineAt(lines, i) # <<>>
  /\ HeadingPattern(LineAt(lines, i)) = "none"
  /\ ~Search("begin_env", LineAt(lines, i)).ok
  /\ root' = [root EXCEPT !.children = @ \o ParagraphNodes(LineAt(lines, i))]
  /\ i' = i + 1
  /\ UNCHANGED <<other, gui, pc, text, preserve_comments, lines, resolver, options,
                 outcome, output>>

\* a render that writes formulas only in the "katex" mode
RenderByMode(offsets, modes) ==
  /\ pc = "parse"
  /\ i >= Len(lines)
  /\ \E off \in offsets, mode \in modes :
       /\ heading_level_offset' = off
       /\ math_mode' = mode
       /\ IF NotionConvertRaises(root)
          THEN outcome' = "raised" /\ output' = <<>>
          ELSE /\ outcome' = "returned"
               /\ output' = IF mode = "katex" THEN NotionConvert(root, off) ELSE <<>>
  /\ pc' = "done"
  /\ UNCHANGED <<other, gui, text, preserve_comments, lines, i, root, resolver, level>>

\* a render that takes the children off the Document as it goes
RenderConsuming(offsets, modes) ==
  /\ pc = "parse"
  /\ i >= Len(lines)
  /\ \E off \in offsets, mode \in modes :
       /\ heading_level_offset' = off
       /\ math_mode' = mode
       /\ outcome' = "returned"
       /\ output' = NotionConvert(root, off)
  /\ root' = [root EXCEPT !.children = <<>>]
  /\ pc' = "done"
  /\ UNCHANGED <<other, gui, text, preserve_comments, lines, i, resolver, level>>

\* parse, line 129 and convert, lines 40-45: the tree is rendered
Render(offsets, modes) ==
  /\ pc = "parse"
  /\ i >= Len(lines)
  /\ \E off \in offsets, mode \in modes :
       /\ heading_level_offset' = off
       /\ math_mode' = mode
       /\ IF NotionConvertRaises(root)
          THEN outcome' = "raised" /\ output' = <<>>
          ELSE outcome' = "returned" /\ output' = NotionConvert(root, off)
  /\ pc' = "done"
  /\ UNCHANGED <<other, gui, text, preserve_comments, lines, i, root, resolver, level>>

\* ListHandler.convert(node, level), called on the list node the parser gave
\* for the first environment of the text
ListHandlerConvert(levels) ==
  /\ pc = "parse"
  /\ i >= Len(lines)
  /\ root.children # <<>>
  /\ IsListNode(root.children[1])
  /\ \E lv \in levels :
       /\ level' = lv
       /\ IF ListConvertRaises(root.children[1])
          THEN outcome' = "raised" /\ output' = <<>>
          ELSE outcome' = "returned" /\ output' = ListConvert(root.children[1], lv)
  /\ pc' = "handled"
  /\ UNCHANGED <<other, gui, text, preserve_comments, lines, i, root, resolver,
                 heading_level_offset, math_mode>>

\* the switch with the tree left where it is: one tree for both calls
SwitchSharingRoot ==
  /\ other.pc # "none"
  /\ other' = [Running EXCEPT !.root = other.root]
  /\ Resume([other EXCEPT !.root = root])
  /\ UNCHANGED gui

\* two calls of convert, each on its own parser and converter: the running
\* call is suspended between two of its steps and the other one goes on
Switch ==
  /\ other.pc # "none"
  /\ other' = Running
  /\ Resume(other)
  /\ UNCHANGED gui

(***************************************************************************)
(* The editor (latex2notion_gui.py).  Time goes in ticks of 500 ms; a      *)
(* callback runs from its start to its end before the next event is        *)
(* handled, and convert_text spans the steps of the convert it calls.      *)
(***************************************************************************)
\* after(500, self.convert_text) and after(3000, ...), in ticks
ConvertDelay == 1

StatusDelay == 6

\* root.after(ms, callback): the scheduled callback
After(delay, kind) == [id |-> next_id, due |-> now + delay, kind |-> kind]

\* update_status(message, color), with the callbacks that stay scheduled
UpdateStatus(message, color, pending) ==
  /\ status' = [text |-> message, foreground |-> color]
  /\ timers' = pending \cup {After(StatusDelay, "reset")}
  /\ next_id' = next_id + 1

\* convert_text, lines 157-170: an empty input is reported, any other is
\* handed to convert
ConvertText(pending) ==
  /\ next_id <= MaxTimers
  /\ IF Strip(input_text) = <<>>
     THEN /\ output_text' = <<>>
          /\ output_state' = "disabled"
          /\ UpdateStatus("No input to convert", "orange", pending)
          /\ UNCHANGED <<convert_call, handler>>
     ELSE /\ Resume(NewCall(<<Strip(input_text)>>))
          /\ handler' = "convert_text"
          /\ timers' = pending
          /\ UNCHANGED <<next_id, status, output_text, output_state>>
  /\ UNCHANGED <<other, auto_convert, convert_timer, now, input_text>>

\* convert_text called from the menu, the toolbar or Ctrl+R
ConvertCommand ==
  /\ handler = "idle"
  /\ ConvertText(timers)

\* convert_text called by its timer
ConvertTimeout ==
  /\ handler = "idle"
  /\ \E t \in timers :
       /\ t.kind = "convert"
       /\ t.due <= now
       /\ ConvertText(timers \ {t})

\* convert_text, lines 171-184: convert has returned or raised
ConvertTextReturn ==
  /\ handler = "convert_text"
  /\ pc = "done"
  /\ IF outcome = "returned"
     THEN /\ output_text' = output
          /\ output_state' = "disabled"
          /\ UpdateStatus("Conversion successful", "green", timers)
     ELSE /\ output_text' = <<"Conversion error: ", "e">>
          /\ output_state' = "disabled"
          /\ UpdateStatus("Conversion failed", "red", timers)
  /\ pc' = "idle"
  /\ handler' = "idle"
  /\ UNCHANGED <<text, preserve_comments, lines, i, root, resolver, options, outcome,
                 output, other, auto_convert, convert_timer, now, input_text>>

\* the reset of the status label, called by its timer
StatusTimeout ==
  /\ handler = "idle"
  /\ \E t \in timers :
       /\ t.kind = "reset"
       /\ t.due <= now
       /\ timers' = timers \ {t}
  /\ status' = [text |-> "Ready", foreground |-> "green"]
  /\ UNCHANGED <<convert_call, other, auto_convert, convert_timer, now, next_id, input_text,
                 output_text, output_state, handler>>

\* on_input_change without the cancel of the pending timer
OnInputChangeNoCancel(contents) ==
  /\ handler = "idle"
  /\ \E content \in contents : input_text' = content
  /\ IF auto_convert
     THEN /\ next_id <= MaxTimers
          /\ timers' = timers \cup {After(ConvertDelay, "convert")}
          /\ convert_timer' = next_id
          /\ next_id' = next_id + 1
     ELSE UNCHANGED <<timers, convert_timer, next_id>>
  /\ UNCHANGED <<convert_call, other, auto_convert, now, output_text, output_state, status, handler>>

\* on_input_change, after a key release or a click in the input widget
OnInputChange(contents) ==
  /\ handler = "idle"
  /\ \E content \in contents : input_text' = content
  /\ IF auto_convert
     THEN /\ next_id <= MaxTimers
          /\ timers' = {t \in timers : t.id # convert_timer} \cup {After(ConvertDelay, "convert")}
          /\ convert_timer' = next_id
          /\ next_id' = next_id + 1
     ELSE UNCHANGED <<timers, convert_timer, next_id>>
  /\ UNCHANGED <<convert_call, other, auto_convert, now, output_text, output_state, status, handler>>

\* the Auto-convert checkbutton
ToggleAutoConvert ==
  /\ handler = "idle"
  /\ auto_convert' = ~auto_convert
  /\ UNCHANGED <<convert_call, other, convert_timer, timers, now, next_id, input_text, output_text,
                 output_state, status, handler>>

\* clear_all that leaves the output widget open
ClearAllLeftOpen ==
  /\ handler = "idle"
  /\ next_id <= MaxTimers
  /\ input_text' = <<>>
  /\ output_text' = <<>>
  /\ output_state' = "normal"
  /\ UpdateStatus("Cleared", "blue", timers)
  /\ UNCHANGED <<convert_call, other, auto_convert, convert_timer, now, handler>>

\* clear_all, the question answered with yes
ClearAll ==
  /\ handler = "idle"
  /\ next_id <= MaxTimers
  /\ input_text' = <<>>
  /\ output_text' = <<>>
  /\ output_state' = "disabled"
  /\ UpdateStatus("Cleared", "blue", timers)
  /\ UNCHANGED <<convert_call, other, auto_convert, convert_timer, now, handler>>

\* time passes when no callback is running and none is due
Tick ==
  /\ handler = "idle"
  /\ now < MaxTime
  /\ \A t \in timers : t.due > now
  /\ now' = now + 1
  /\ UNCHANGED <<convert_call, other, auto_convert, convert_timer, timers, next_id, input_text,
                 output_text, output_state, status, handler>>

(***************************************************************************)
(* The inputs and the specifications.                                      *)
(***************************************************************************)
\* \cmd{title} as a line
CommandLine(cmd, title) == <<cmd, "{">> \o title \o <<"}">>

MathModes == {"katex", "plain"}

\* Spec: every kind of line the pipeline tells apart
Lines ==
  { <<>>,
    <<" ">>,
    <<" ", "a", " ", "b", " ">>,
    <<"c">>,
    CommandLine("\\section", <<"T">>),
    CommandLine("\\begin", <<"tabular">>),
    <<"a", "|", "&", "b", "%", "c">>,
    CommandLine("\\end", <<"tabular">>),
    CommandLine("\\begin", <<"itemize">>),
    <<"\\item", " ", "$", "x", "$">>,
    CommandLine("\\textbf", <<"b">>) \o <<" ">> \o CommandLine("\\href", <<"u">>) \o <<"{", "l", "}">> }

Offsets == {-1, 0, 1}

Init == InitWith(Texts(Lines, MaxLines))

Next ==
  \/ Convert(BOOLEAN)
  \/ ParseBlank
  \/ ParseHeading
  \/ ParseBeginEnv
  \/ ScanLine
  \/ EnvReturn
  \/ ParseParagraphLine
  \/ Render(Offsets, MathModes)

Spec == Init /\ [][Next]_vars

\* SpecEnv: the lines the environment resolver tells apart, for two names
EnvLines ==
  { <<"a">>,
    CommandLine("\\begin", <<"quote">>),
    CommandLine("\\end", <<"quote">>),
    CommandLine("\\begin", <<"itemize">>),
    CommandLine("\\end", <<"itemize">>),
    CommandLine("\\end", <<"itemize">>) \o <<" ">> \o CommandLine("\\begin", <<"itemize">>),
    CommandLine("\\end", <<"quote">>) \o <<" ">> \o CommandLine("\\end", <<"itemize">>) }

InitEnv == InitWith(Texts(EnvLines, MaxEnvLines))

NextEnv ==
  \/ Convert({FALSE})
  \/ ParseBeginEnv
  \/ ScanLine
  \/ EnvReturn
  \/ ParseParagraphLine
  \/ Render({0}, {"katex"})

SpecEnv == InitEnv /\ [][NextEnv]_vars

\* SpecHeading: the heading commands with their titles, under every offset
HeadingCommands == {"\\section", "\\subsection", "\\subsubsection"}

Titles == {<<>>, <<"T">>, <<"#", "T">>, <<" ", "T", " ", "U">>}

HeadingLines == {<<>>} \cup {CommandLine(cmd, title) : cmd \in HeadingCommands, title \in Titles}

InitHeading == InitWith(Texts(HeadingLines, MaxHeadingLines))

NextHeading ==
  \/ Convert({FALSE})
  \/ ParseBlank
  \/ ParseHeading
  \/ ParseParagraphLine
  \/ Render((0 - MaxOffset)..MaxOffset, {"katex"})

SpecHeading == InitHeading /\ [][NextHeading]_vars

\* SpecComment: lines with and without comments, at the top level, after a
\* heading and inside an environment of a name env_map does not know
CommentLines ==
  { <<"a">>,
    <<"a", " ", "%", " ", "k">>,
    <<"%", "k">>,
    CommandLine("\\section", <<"T">>) \o <<" ", "%", " ", "k">>,
    CommandLine("\\begin", <<"foo">>),
    CommandLine("\\end", <<"foo">>) }

InitComment == InitWith(Texts(CommentLines, MaxCommentLines))

NextComment ==
  \/ Convert(BOOLEAN)
  \/ ParseBlank
  \/ ParseHeading
  \/ ParseBeginEnv
  \/ ScanLine
  \/ EnvReturn
  \/ ParseParagraphLine
  \/ Render({0}, {"katex"})

SpecComment == InitComment /\ [][NextComment]_vars

\* SpecList: a list environment opened on the first line, its body of plain
\* lines and \item lines
ListEnvLines ==
  { <<"p">>,
    <<"\\item", " ", "a">>,
    <<"\\item", " ", "b", " ">>,
    CommandLine("\\begin", <<"itemize">>),
    CommandLine("\\end", <<"itemize">>),
    CommandLine("\\begin", <<"enumerate">>),
    CommandLine("\\end", <<"enumerate">>) }

ListTexts ==
  {t \in Texts(ListEnvLines, MaxListLines) :
     t[1] \in {CommandLine("\\begin", <<"itemize">>), CommandLine("\\begin", <<"enumerate">>)}}

InitList == InitWith(ListTexts)

NextList ==
  \/ Convert({FALSE})
  \/ ParseBeginEnv
  \/ ScanLine
  \/ EnvReturn
  \/ ParseParagraphLine
  \/ Render({0}, {"katex"})
  \/ ListHandlerConvert(0..MaxLevel)

SpecList == InitList /\ [][NextList]_vars

\* SpecInline: one paragraph line put together from pieces: plain text, a
\* blank, inline constructs, a construct inside another, a lone '$'
InlinePieces ==
  { <<"a">>,
    <<" ">>,
    <<"$">>,
    <<"$", "x", "$">>,
    CommandLine("\\textbf", <<"b">>),
    CommandLine("\\textbf", <<"$", "x", "$">>),
    CommandLine("\\href", <<"u">>) \o <<"{", "l", "}">> }

InlineTexts == {<<Concat(pieces)>> : pieces \in Texts(InlinePieces, MaxPieces)}

InitInline == InitWith(InlineTexts)

NextInline ==
  \/ Convert({FALSE})
  \/ ParseBlank
  \/ ParseParagraphLine
  \/ Render({0}, {"katex"})

SpecInline == InitInline /\ [][NextInline]_vars

\* SpecTable: a tabular environment opened on the first line, its body of
\* rows of two and three cells, cells with '|' in them, a rule and a
\* comment line with an '&' in it
TableEnvLines ==
  { <<"a", " ", "&", " ", "b">>,
    <<" ", "%", "a", "&", "b">>,
    <<"a", " ", "|", " ", "&", "b">>,
    <<"a", "|", "b", "&", "c", "&", "d">>,
    <<"\\hline">>,
    CommandLine("\\begin", <<"tabular">>),
    CommandLine("\\end", <<"tabular">>) }

TableTexts ==
  {t \in Texts(TableEnvLines, MaxTableLines) : t[1] = CommandLine("\\begin", <<"tabular">>)}

InitTable == InitWith(TableTexts)

NextTable ==
  \/ Convert(BOOLEAN)
  \/ ParseBeginEnv
  \/ ScanLine
  \/ EnvReturn
  \/ ParseParagraphLine
  \/ Render({0}, {"katex"})

SpecTable == InitTable /\ [][NextTable]_vars

\* SpecHandlers: the converter and the list handler called on trees built
\* with ASTNode: a Paragraph of inline nodes, a list of one item of inline
\* nodes, and a list of one item that holds a Paragraph of inline nodes;
\* the inline nodes are of every inline kind, with a content or None, a
\* link with and without the url attribute (a Text node has a str content)
InlineNodes ==
  {ASTNode(kind, content, <<>>, EmptyDict) :
     kind \in {"bold", "italic", "code", "math_inline", "math_display"},
     content \in {None, Str(<<"x">>)}}
  \cup {ASTNode("link", content, <<>>, attributes) :
          content \in {None, Str(<<"x">>)}, attributes \in {EmptyDict, [url |-> <<"u">>]}}
  \cup {ASTNode("text", Str(<<"x">>), <<>>, EmptyDict)}

\* the tree of a shape around the inline nodes
HandlerTree(shape, children) ==
  CASE shape = "paragraph" -> ASTNode("paragraph", None, children, EmptyDict)
    [] shape = "item" ->
         ASTNode("list_itemize", None,
                 <<ASTNode("list_item", None, children, EmptyDict)>>, EmptyDict)
    [] shape = "item_paragraph" ->
         ASTNode("list_enumerate", None,
                 <<ASTNode("list_item", None,
                           <<ASTNode("paragraph", None, children, EmptyDict)>>,
                           EmptyDict)>>, EmptyDict)

InitHandlers ==
  /\ \E shape \in {"paragraph", "item", "item_paragraph"},
        children \in Texts(InlineNodes, MaxChildren) :
       InitCall([NewCall(<<>>) EXCEPT
                   !.pc = "parse",
                   !.root = ASTNode("document", None,
                                    <<HandlerTree(shape, children)>>, EmptyDict)])
  /\ other = NoCall
  /\ InitEditor(<<>>, "idle")

NextHandlers ==
  \/ Render({0}, {"katex"})
  \/ ListHandlerConvert({0})

SpecHandlers == InitHandlers /\ [][NextHandlers]_vars

\* SpecPair: two calls of convert on texts of a heading and of a formula
\* with a comment after it, their steps interleaved in every order
PairLines ==
  { CommandLine("\\section", <<"T">>),
    <<"$", "x", "$", " ", "%", "k">> }

InitPair ==
  /\ \E latex_string \in Texts(PairLines, MaxPairLines) : InitCall(NewCall(latex_string))
  /\ \E latex_string \in Texts(PairLines, MaxPairLines) : other = NewCall(latex_string)
  /\ InitEditor(<<>>, "idle")

NextPair ==
  \/ Convert(BOOLEAN)
  \/ ParseHeading
  \/ ParseParagraphLine
  \/ Render({0, 1}, MathModes)
  \/ Switch

SpecPair == InitPair /\ [][NextPair]_vars

\* SpecGui: the editor from the moment load_sample calls convert_text, with
\* a heading for the sample; the input is then changed to a blank, to a
\* word or to a heading
GuiContents ==
  { <<" ">>,
    <<"c", " ">>,
    CommandLine("\\section", <<"T">>) }

InitGui ==
  /\ InitCall(NewCall(<<CommandLine("\\section", <<"T">>)>>))
  /\ other = NoCall
  /\ InitEditor(CommandLine("\\section", <<"T">>), "convert_text")

NextGui ==
  \/ Convert({FALSE})
  \/ ParseHeading
  \/ ParseParagraphLine
  \/ Render({0}, {"katex"})
  \/ ConvertTextReturn
  \/ OnInputChange(GuiContents)
  \/ ToggleAutoConvert
  \/ ConvertCommand
  \/ ConvertTimeout
  \/ StatusTimeout
  \/ ClearAll
  \/ Tick

SpecGui == InitGui /\ [][NextGui]_vars

(***************************************************************************)
(* Vocabulary of the properties, defined on the input and the output       *)
(* alone.                                                                  *)
(***************************************************************************)
BlankChars == {" ", "\t", "\n"}

\* a line of whitespace only
BlankLine(line) == \A k \in 1..Len(line) : line[k] \in BlankChars

\* a text with leading and trailing whitespace trimmed
Trimmed(s) ==
  IF BlankLine(s) THEN <<>>
  ELSE SubSeq(s, CHOOSE a \in 1..Len(s) : s[a] \notin BlankChars
                    /\ \A k \in 1..(a - 1) : s[k] \in BlankChars,
                 CHOOSE b \in 1..Len(s) : s[b] \notin BlankChars
                    /\ \A k \in (b + 1)..Len(s) : s[k] \in BlankChars)

\* the lines of a text put together again
RECURSIVE Unsplit(_)
Unsplit(lns) ==
  IF Len(lns) = 0 THEN <<>>
  ELSE IF Len(lns) = 1 THEN lns[1]
  ELSE lns[1] \o <<"\n">> \o Unsplit(Tail(lns))

\* blocks with one blank line between them
RECURSIVE BlankLineJoined(_)
BlankLineJoined(blocks) ==
  IF Len(blocks) = 0 THEN <<>>
  ELSE IF Len(blocks) = 1 THEN blocks[1]
  ELSE blocks[1] \o <<"\n", "\n">> \o BlankLineJoined(Tail(blocks))

\* the tokens that start a LaTeX construct: commands, math delimiters, comment marker
MarkupTokens ==
  {"\\section", "\\subsection", "\\subsubsection", "\\begin", "\\end", "\\item",
   "\\textbf", "\\textit", "\\texttt", "\\href", "\\(", "\\)", "\\[", "\\]", "$", "%"}

\* a text with no LaTeX construct and at least one line that is not blank
PlainText(lns) ==
  /\ \A k \in 1..Len(lns) : \A j \in 1..Len(lns[k]) : lns[k][j] \notin MarkupTokens
  /\ \E k \in 1..Len(lns) : ~BlankLine(lns[k])

\* the lines of a text that are not blank
NonBlankLines(lns) == SelectSeq(lns, LAMBDA l : ~BlankLine(l))

C6_ParseReturnsDocument ==
  /\ root.node_type = "document"
  /\ (pc = "done" /\ \A k \in 1..Len(lines) : BlankLine(lines[k])) => root.children = <<>>

\* parse has returned for an input of several lines, all blank, one of them of whitespace
C6_Witness ==
  /\ pc = "done"
  /\ Len(lines) >= 2
  /\ \A k \in 1..Len(lines) : BlankLine(lines[k])
  /\ \E k \in 1..Len(lines) : lines[k] # <<>>
  /\ root.children = <<>>

(***************************************************************************)
(* C10                                                                     *)
(***************************************************************************)
\* C10 as stated: a non-blank text with no LaTeX construct yields exactly one
\* paragraph block, and the output is the input trimmed.
C10_PlainTextIsOneParagraph ==
  (pc = "done" /\ PlainText(text)) =>
    /\ Len(root.children) = 1
    /\ root.children[1].node_type = "paragraph"
    /\ output = Trimmed(Unsplit(text))

\* C10 as amended: a non-blank text with no LaTeX construct yields one
\* paragraph block for each line that is not blank, and the output is these
\* lines, each trimmed, with one blank line between them; with one such line
\* it is one paragraph block, the input trimmed.
C10_PlainTextIsOneParagraphPerLine ==
  (pc = "done" /\ PlainText(text)) =>
    /\ Len(root.children) = Len(NonBlankLines(text))
    /\ \A k \in 1..Len(root.children) : root.children[k].node_type = "paragraph"
    /\ output = BlankLineJoined([k \in 1..Len(NonBlankLines(text)) |->
                                   Trimmed(NonBlankLines(text)[k])])
    /\ Len(NonBlankLines(text)) = 1 => output = Trimmed(Unsplit(text))

\* convert has returned for a plain text of three lines, two of them not
\* blank and one of these with whitespace around it
C10_Witness ==
  /\ pc = "done"
  /\ PlainText(text)
  /\ Len(text) = 3
  /\ Len(NonBlankLines(text)) = 2
  /\ \E k \in 1..Len(text) : ~BlankLine(text[k]) /\ Trimmed(text[k]) # text[k]
  /\ Len(root.children) = 2

(***************************************************************************)
(* Vocabulary of the environment properties: the markers of a line, read   *)
(* off the line itself.                                                    *)
(***************************************************************************)
\* the positions at which \cmd{n} stands in a line, n one word
MarkerPositions(line, cmd) ==
  {k \in 1..(Len(line) - 3) : line[k] = cmd /\ line[k + 1] = "{" /\ line[k + 3] = "}"}

\* the line contains a \begin
HasBegin(line) == MarkerPositions(line, "\\begin") # {}

\* the names n of the \end{n} a line contains
EndNamesIn(line) == {line[k + 2] : k \in MarkerPositions(line, "\\end")}

\* the name of the first \end of a line that contains one
FirstEndName(line) ==
  line[(CHOOSE k \in MarkerPositions(line, "\\end") :
          \A m \in MarkerPositions(line, "\\end") : k <= m) + 2]

\* the line is \begin{n} and nothing else, for some n
IsBeginLine(line) == Len(line) = 4 /\ MarkerPositions(line, "\\begin") = {1}

\* the line is \end{n} and nothing else, for some n
IsEndLine(line) == Len(line) = 4 /\ MarkerPositions(line, "\\end") = {1}

\* the environments of lines k.. are properly nested inside the open ones
RECURSIVE NestedFrom(_, _, _)
NestedFrom(lns, k, open) ==
  IF k > Len(lns) THEN open = <<>>
  ELSE IF IsBeginLine(lns[k]) THEN NestedFrom(lns, k + 1, <<lns[k][3]>> \o open)
  ELSE IF IsEndLine(lns[k])
  THEN open # <<>> /\ Head(open) = lns[k][3] /\ NestedFrom(lns, k + 1, Tail(open))
  ELSE MarkerPositions(lns[k], "\\begin") = {} /\ MarkerPositions(lns[k], "\\end") = {}
         /\ NestedFrom(lns, k + 1, open)

\* every \begin line has its \end line later, inner environments closed first
ProperlyNested(lns) == NestedFrom(lns, 1, <<>>)

\* in a properly nested text: the 0-based index of the line that closes the
\* innermost of n environments open before line k (1-based)
RECURSIVE ClosingLine(_, _, _)
ClosingLine(lns, k, n) ==
  IF k > Len(lns) THEN 0 - 1
  ELSE IF IsBeginLine(lns[k]) THEN ClosingLine(lns, k + 1, n + 1)
  ELSE IF IsEndLine(lns[k]) THEN (IF n = 1 THEN k - 1 ELSE ClosingLine(lns, k + 1, n - 1))
  ELSE ClosingLine(lns, k + 1, n)

\* the resolver's scan is over: it broke off or ran out of lines
ScanOver == pc = "scan" /\ (depth = 0 \/ scan_i >= Len(lines))

\* no line after the 0-based index s contains an \end of the opened name
NoEndAfter(lns, s, name) ==
  \A k \in (s + 2)..Len(lns) : \A n \in EndNamesIn(lns[k]) : <<n>> # name

(***************************************************************************)
(* C2                                                                      *)
(***************************************************************************)
\* C2: in a properly nested text the resolver called at a \begin line returns
\* the index of the \end line that closes this \begin, and the body is the
\* lines strictly between the two.
C2_ResolverFindsClosingEnd ==
  (ScanOver /\ ProperlyNested(lines)) =>
    /\ end_line = ClosingLine(lines, start_line + 2, 1)
    /\ env_content_lines = SubSeq(lines, start_line + 2, end_line)

(***************************************************************************)
(* C3                                                                      *)
(***************************************************************************)
\* C3: when no line after the \begin line closes the environment, the
\* resolver's node has all lines after it as its body and is appended as the
\* last child, and the main scan is over: no later line gives a further node.
C3_UnclosedConsumesRest ==
  [][(pc = "scan" /\ pc' = "parse" /\ NoEndAfter(lines, start_line, env_name)) =>
       /\ Len(root'.children) = Len(root.children) + 1
       /\ root'.children[Len(root'.children)].content.s
            = Unsplit(SubSeq(lines, start_line + 2, Len(lines)))
       /\ i' >= Len(lines)]_vars

(***************************************************************************)
(* C4                                                                      *)
(***************************************************************************)
\* C4: while the resolver scans, parse appends nothing and stays at the
\* \begin line s; when the scan has found the closing \end at line e, parse
\* appends exactly one node, the environment's, and continues at line e + 1.
C4_ResumeAfterEnd ==
  [][/\ (pc = "scan" /\ pc' = "scan") => (i = start_line /\ i' = i /\ root' = root)
     /\ (pc = "scan" /\ pc' = "parse" /\ depth = 0) =>
          /\ end_line > start_line
          /\ \E n \in EndNamesIn(lines[end_line + 1]) : <<n>> = env_name
          /\ Len(root'.children) = Len(root.children) + 1
          /\ SubSeq(root'.children, 1, Len(root.children)) = root.children
          /\ root'.children[Len(root'.children)].attributes.env_name = env_name
          /\ i' = end_line + 1]_vars

\* the scan found the \end of the first environment at line e and the main
\* scan, one node appended, stands at line e + 1, which exists
C4_Witness ==
  /\ pc = "parse"
  /\ depth = 0
  /\ start_line = 0
  /\ end_line > start_line + 1
  /\ Len(root.children) = 1
  /\ i = end_line + 1
  /\ i < Len(lines)

(***************************************************************************)
(* C5                                                                      *)
(***************************************************************************)
\* one iteration of the resolver's scan is taken
ScanIteration == pc = "scan" /\ pc' = "scan" /\ depth > 0 /\ scan_i < Len(lines)

\* the iteration ends the scan
ScanStops == scan_i' = scan_i

\* the iteration appends its line to the body
ScanAppends == env_content_lines' = Append(env_content_lines, lines[scan_i + 1])

\* C5 as stated: the counter starts at 1; every line containing a \begin
\* increments it; only a line containing an \end of the opened name decrements
\* it; the scan stops exactly when it reaches 0; a line containing an \end of
\* another name is appended and neither changes the counter nor ends the scan.
C5_DepthCounter ==
  [][/\ (pc = "parse" /\ pc' = "scan") => depth' = 1
     /\ ScanIteration =>
          /\ HasBegin(lines[scan_i + 1]) => depth' = depth + 1
          /\ depth' < depth =>
               (depth' = depth - 1 /\ \E n \in EndNamesIn(lines[scan_i + 1]) : <<n>> = env_name)
          /\ ScanStops <=> depth' = 0
          /\ (\E n \in EndNamesIn(lines[scan_i + 1]) : <<n>> # env_name) =>
               (ScanAppends /\ depth' = depth /\ ~ScanStops)]_vars

\* C5 as amended: the same, with the last part for a line that contains no
\* \begin and whose first \end has another name.
C5_DepthCounterFirstMarker ==
  [][/\ (pc = "parse" /\ pc' = "scan") => depth' = 1
     /\ ScanIteration =>
          /\ HasBegin(lines[scan_i + 1]) => depth' = depth + 1
          /\ depth' < depth =>
               (depth' = depth - 1 /\ \E n \in EndNamesIn(lines[scan_i + 1]) : <<n>> = env_name)
          /\ ScanStops <=> depth' = 0
          /\ (/\ ~HasBegin(lines[scan_i + 1])
              /\ EndNamesIn(lines[scan_i + 1]) # {}
              /\ <<FirstEndName(lines[scan_i + 1])>> # env_name) =>
               (ScanAppends /\ depth' = depth /\ ~ScanStops)]_vars

\* inside a quote opened twice, the scan has appended an \end{itemize} line
\* and the counter still stands at 2
C5_Witness ==
  /\ pc = "scan"
  /\ env_name = <<"quote">>
  /\ depth = 2
  /\ Len(env_content_lines) = 2
  /\ env_content_lines[2] = CommandLine("\\end", <<"itemize">>)
  /\ scan_i = start_line + 3

(***************************************************************************)
(* Vocabulary of the heading properties.                                   *)
(***************************************************************************)
\* the kind of heading node a heading command stands for
KindOfCommand(cmd) ==
  CASE cmd = "\\section"       -> "section"
    [] cmd = "\\subsection"    -> "subsection"
    [] cmd = "\\subsubsection" -> "subsubsection"

\* the source level of a kind of heading
LevelOfKind(kind) ==
  CASE kind = "section"       -> 1
    [] kind = "subsection"    -> 2
    [] kind = "subsubsection" -> 3

\* the line is a heading command with a title in braces and nothing else
IsHeadingLine(line) ==
  /\ Len(line) >= 3
  /\ line[1] \in HeadingCommands
  /\ line[2] = "{"
  /\ line[Len(line)] = "}"

\* the title of a heading line
TitleOf(line) == SubSeq(line, 3, Len(line) - 1)

\* the number of '#' a line starts with
RECURSIVE LeadingHashes(_)
LeadingHashes(line) ==
  IF line # <<>> /\ Head(line) = "#" THEN 1 + LeadingHashes(Tail(line)) ELSE 0

\* max(1, min(6, level + offset))
SaturatedLevel(source_level, offset) == SetMax({1, SetMin({6, source_level + offset})})

\* the line is n '#', one space and the title
IsRenderedHeading(line, n, title) ==
  /\ Len(line) = n + 1 + Len(title)
  /\ \A k \in 1..n : line[k] = "#"
  /\ line[n + 1] = " "
  /\ SubSeq(line, n + 2, Len(line)) = title

\* the lines of the output that are not empty
OutputLines == SelectSeq(Split(output, "\n"), LAMBDA l : l # <<>>)

(***************************************************************************)
(* C7                                                                      *)
(***************************************************************************)
\* C7: for a text of heading commands with empty titles parse appends, line
\* by line, a heading node of the command's kind whose content is the empty
\* string.
C7_EmptyTitleIsHeading ==
  (pc = "done" /\ \A k \in 1..Len(text) : IsHeadingLine(text[k]) /\ TitleOf(text[k]) = <<>>) =>
    /\ Len(root.children) = Len(text)
    /\ \A k \in 1..Len(text) :
         /\ root.children[k].node_type = KindOfCommand(text[k][1])
         /\ root.children[k].content = Str(<<>>)

(***************************************************************************)
(* C8                                                                      *)
(***************************************************************************)
\* C8: for a text of heading commands with titles, convert with offset 0
\* outputs for each a line of 1, 2 or 3 '#' by the level of the command, one
\* space and the title unchanged.
C8_HeadingLineRendered ==
  (pc = "done" /\ heading_level_offset = 0 /\ \A k \in 1..Len(text) : IsHeadingLine(text[k])) =>
    /\ Len(OutputLines) = Len(text)
    /\ \A k \in 1..Len(text) :
         IsRenderedHeading(OutputLines[k], LevelOfKind(KindOfCommand(text[k][1])),
                           TitleOf(text[k]))

(***************************************************************************)
(* C9                                                                      *)
(***************************************************************************)
\* C9: every node gives one line of the output, and the line of a heading
\* node of source level L starts with exactly max(1, min(6, L + offset)) '#'
\* followed by a space.
C9_HeadingLevelSaturates ==
  pc = "done" =>
    /\ Len(OutputLines) = Len(root.children)
    /\ \A k \in 1..Len(root.children) :
         root.children[k].node_type \in {"section", "subsection", "subsubsection"} =>
           /\ LeadingHashes(OutputLines[k])
                = SaturatedLevel(LevelOfKind(root.children[k].node_type), heading_level_offset)
           /\ OutputLines[k][LeadingHashes(OutputLines[k]) + 1] = " "

\* a \subsubsection whose title starts with '#' and a \section are rendered
\* under the offset 5: the levels 8 and 6
C9_Witness ==
  /\ pc = "done"
  /\ heading_level_offset = 5
  /\ Len(root.children) = 2
  /\ root.children[1].node_type = "subsubsection"
  /\ root.children[1].content = Str(<<"#", "T">>)
  /\ root.children[2].node_type = "section"

(***************************************************************************)
(* Vocabulary of the comment properties.                                   *)
(***************************************************************************)
\* a line up to its first '%'
RECURSIVE BeforeComment(_)
BeforeComment(line) ==
  IF line = <<>> \/ Head(line) = "%" THEN <<>>
  ELSE <<Head(line)>> \o BeforeComment(Tail(line))

\* what follows the first '%' of a line
CommentText(line) == SubSeq(line, Len(BeforeComment(line)) + 2, Len(line))

\* the words of a piece of text
Words(s) == {s[j] : j \in 1..Len(s)} \ (BlankChars \cup {"%"})

\* the words that stand in comments, and those that stand before them
CommentWords(lns) == UNION {Words(CommentText(lns[k])) : k \in 1..Len(lns)}

SourceWords(lns) == UNION {Words(BeforeComment(lns[k])) : k \in 1..Len(lns)}

\* the line holds a heading command
HasHeadingCommand(line) == \E j \in 1..Len(line) : line[j] \in HeadingCommands

HasItem(line) == \E j \in 1..Len(line) : line[j] = "\\item"

\* the text that follows the first \item marker of a line
MarkerText(line) ==
  Trimmed(SubSeq(line, (CHOOSE j \in 1..Len(line) :
                          line[j] = "\\item" /\ \A m \in 1..(j - 1) : line[m] # "\\item") + 1,
                 Len(line)))

\* the text is one list environment, opened on its first line and closed on
\* its last, with no other environment marker
IsClosedListText(t) ==
  /\ Len(t) >= 2
  /\ IsBeginLine(t[1])
  /\ t[1][3] \in {"itemize", "enumerate"}
  /\ IsEndLine(t[Len(t)])
  /\ t[Len(t)][3] = t[1][3]
  /\ \A k \in 2..(Len(t) - 1) : ~HasBegin(t[k]) /\ EndNamesIn(t[k]) = {}

\* the items of a body: the text of each marker with the lines that follow it
\* up to the next marker; the lines before the first marker are in no item
RECURSIVE ItemsFromMarkers(_, _, _)
ItemsFromMarkers(lns, k, items) ==
  IF k > Len(lns) THEN [j \in 1..Len(items) |-> Trimmed(items[j])]
  ELSE IF HasItem(lns[k]) THEN ItemsFromMarkers(lns, k + 1, Append(items, MarkerText(lns[k])))
  ELSE IF items = <<>> THEN ItemsFromMarkers(lns, k + 1, items)
  ELSE ItemsFromMarkers(lns, k + 1,
                        [items EXCEPT ![Len(items)] = @ \o <<"\n">> \o lns[k]])

\* the texts of the items of a list node whose items are plain text
ItemTexts(node) ==
  [k \in 1..Len(node.children) |-> node.children[k].children[1].content.s]

\* every item of the list node is one line of plain text
SingleLineItems(node) ==
  \A k \in 1..Len(node.children) :
    /\ Len(node.children[k].children) = 1
    /\ node.children[k].children[1].node_type = "text"
    /\ ~Contains(node.children[k].children[1].content.s, "\n")

\* the line of an item: two spaces per level, the marker of the list, the text
ItemLine(node_type, lv, item_text) ==
  [j \in 1..(2 * lv) |-> " "]
    \o (IF node_type = "list_enumerate" THEN <<"1", ".", " ">> ELSE <<"-", " ">>)
    \o item_text

(***************************************************************************)
(* C12                                                                     *)
(***************************************************************************)
\* C12: the items of a list environment are those that start at the \item
\* markers of its body, each with the text from its marker up to the next one
\* or the end of the body; the text before the first marker is in no item.
C12_ItemsStartAtMarkers ==
  (pc \in {"done", "handled"} /\ IsClosedListText(text)) =>
    /\ \A k \in 1..Len(root.children[1].children) :
         root.children[1].children[k].node_type = "list_item"
    /\ ItemTexts(root.children[1])
         = ItemsFromMarkers(SubSeq(text, 2, Len(text) - 1), 1, <<>>)

(***************************************************************************)
(* C13                                                                     *)
(***************************************************************************)
\* C13: a list node whose n items are single lines is rendered at nesting
\* level lv as n lines in item order and nothing between them, each the
\* indent of 2 * lv spaces, then "- " (itemize) or "1. " (enumerate), then the
\* item's text; with no items the rendering is the empty string.
C13_ListRendered ==
  (/\ pc = "handled" \/ (pc = "done" /\ Len(root.children) = 1)
   /\ IsListNode(root.children[1])
   /\ SingleLineItems(root.children[1])) =>
    output = Unsplit([k \in 1..Len(root.children[1].children) |->
                        ItemLine(root.children[1].node_type, level,
                                 ItemTexts(root.children[1])[k])])

\* an enumerate list of two single-line items has been rendered at level 2
C13_Witness ==
  /\ pc = "handled"
  /\ level = 2
  /\ root.children[1].node_type = "list_enumerate"
  /\ Len(root.children[1].children) = 2
  /\ SingleLineItems(root.children[1])
  /\ output = <<" ", " ", " ", " ", "1", ".", " ", "a", "\n",
                " ", " ", " ", " ", "1", ".", " ", "b">>

(***************************************************************************)
(* Vocabulary of the inline properties.                                    *)
(***************************************************************************)
\* the source text a child of a paragraph stands for
SourceOf(child) ==
  CASE child.node_type = "text"         -> child.content.s
    [] child.node_type = "bold"         -> <<"\\textbf", "{">> \o child.content.s \o <<"}">>
    [] child.node_type = "italic"       -> <<"\\textit", "{">> \o child.content.s \o <<"}">>
    [] child.node_type = "code"         -> <<"\\texttt", "{">> \o child.content.s \o <<"}">>
    [] child.node_type = "math_inline"  -> <<"$">> \o child.content.s \o <<"$">>
    [] child.node_type = "math_display" -> <<"$", "$">> \o child.content.s \o <<"$", "$">>
    [] child.node_type = "link"         ->
         <<"\\href", "{">> \o child.attributes.url \o <<"}", "{">> \o child.content.s \o <<"}">>

\* the source texts of the children, one after the other
RECURSIVE SourceOfAll(_)
SourceOfAll(children) ==
  IF children = <<>> THEN <<>>
  ELSE SourceOf(Head(children)) \o SourceOfAll(Tail(children))

\* a text without its whitespace
NoSpace(s) == SelectSeq(s, LAMBDA c : c \notin BlankChars)

(***************************************************************************)
(* C14                                                                     *)
(***************************************************************************)
\* C14: the children of a paragraph stand, in their order, for disjoint
\* pieces of the paragraph's text that follow one another from left to right
\* and leave out whitespace only: their source texts put together are the
\* text, whitespace apart.
C14_ChildrenCoverInput ==
  (pc = "done" /\ root.children # <<>>) =>
    NoSpace(SourceOfAll(root.children[1].children)) = NoSpace(text[1])

(***************************************************************************)
(* Vocabulary of the table properties.                                     *)
(***************************************************************************)
\* convert has returned for a text that gave one node, a table
TableRendered ==
  pc = "done" /\ Len(root.children) = 1 /\ root.children[1].node_type = "table"

\* the cells of the k-th row node of the table
RowCells(k) == root.children[1].children[k].content.cells

\* the lines of the output
TableLines == Split(output, "\n")

\* a cell with a backslash put before each of its '|'
RECURSIVE Escaped(_)
Escaped(cell) ==
  IF cell = <<>> THEN <<>>
  ELSE IF Head(cell) = "|" THEN <<"\\", "|">> \o Escaped(Tail(cell))
  ELSE <<Head(cell)>> \o Escaped(Tail(cell))

\* the cells from the k-th on, each followed by " |"
RECURSIVE CellsFrom(_, _)
CellsFrom(cells, k) ==
  IF k > Len(cells) THEN <<>>
  ELSE <<" ">> \o Escaped(cells[k]) \o <<" ", "|">> \o CellsFrom(cells, k + 1)

\* the line of a row: the cells between pipes
RowText(cells) == <<"|">> \o CellsFrom(cells, 1)

\* the positions of the '|' of a line that no backslash precedes
UnescapedPipes(line) ==
  {j \in 1..Len(line) : line[j] = "|" /\ (j = 1 \/ line[j - 1] # "\\")}

\* the number of '|' in the cells of a row
PipesIn(cells) ==
  Cardinality(UNION {{<<k, j>> : j \in {m \in 1..Len(cells[k]) : cells[k][m] = "|"}} :
                       k \in 1..Len(cells)})

\* the number of '---' cells of a separator line
DashCells(line) == Cardinality({j \in 1..(Len(line) - 2) :
                                  line[j] = "-" /\ line[j + 1] = "-" /\ line[j + 2] = "-"})

(***************************************************************************)
(* C15                                                                     *)
(***************************************************************************)
\* C15: a table of r >= 1 rows is rendered as r + 1 lines: the first row, a
\* separator line, the other rows in their order; a table of 0 rows is
\* rendered as the empty string.
C15_TableLineCount ==
  TableRendered =>
    IF root.children[1].children = <<>> THEN output = <<>>
    ELSE /\ Len(TableLines) = Len(root.children[1].children) + 1
         /\ TableLines[1] = RowText(RowCells(1))
         /\ \A j \in 1..Len(TableLines[2]) : TableLines[2][j] \in {"|", " ", "-"}
         /\ DashCells(TableLines[2]) >= 1
         /\ \A k \in 2..Len(root.children[1].children) :
              TableLines[k + 1] = RowText(RowCells(k))

\* a table of two rows has been rendered as three lines
C15_Witness ==
  /\ TableRendered
  /\ Len(root.children[1].children) = 2
  /\ Len(TableLines) = 3
  /\ RowCells(2) = << <<"a">>, <<"b">> >>

(***************************************************************************)
(* C16                                                                     *)
(***************************************************************************)
\* C16: in every row line the '|' that no backslash precedes are the two
\* outer pipes and the pipes of the " | " between cells, one more than the
\* row has cells, and every '|' of a cell's text has a backslash before it.
C16_CellPipesEscaped ==
  (TableRendered /\ root.children[1].children # <<>>) =>
    \A k \in 1..Len(root.children[1].children) :
      LET line == TableLines[IF k = 1 THEN 1 ELSE k + 1]
      IN  /\ Cardinality(UnescapedPipes(line)) = Len(RowCells(k)) + 1
          /\ \A j \in UnescapedPipes(line) :
               /\ j = 1 \/ line[j - 1] = " "
               /\ j = Len(line) \/ line[j + 1] = " "
          /\ Cardinality({j \in 1..Len(line) : line[j] = "|"} \ UnescapedPipes(line))
               = PipesIn(RowCells(k))

\* a row whose first cell holds a '|' has been rendered
C16_Witness ==
  /\ TableRendered
  /\ Len(root.children[1].children) = 2
  /\ RowCells(2) = << <<"a", " ", "|">>, <<"b">> >>
  /\ TableLines[3] = <<"|", " ", "a", " ", "\\", "|", " ", "|", " ", "b", " ", "|">>

(***************************************************************************)
(* C17                                                                     *)
(***************************************************************************)
\* C17: the separator line has as many '---' cells as the first row has cells.
C17_SeparatorWidth ==
  (TableRendered /\ root.children[1].children # <<>>) =>
    DashCells(TableLines[2]) = Len(RowCells(1))

(***************************************************************************)
(* C18                                                                     *)
(***************************************************************************)
\* the renderings of the Document's children, in document order
Renderings ==
  [k \in 1..Len(root.children) |-> ConvertNode(root.children[k], heading_level_offset)]

\* C18: the output is the non-empty renderings of the Document's children in
\* document order with one blank line between two of them, nothing before
\* the first and nothing after the last; an empty rendering adds nothing.
C18_BlocksJoinedByBlankLine ==
  pc = "done" =>
    output = BlankLineJoined(SelectSeq(Renderings, LAMBDA block : block # <<>>))

\* a paragraph and an empty table have been rendered: the output is the
\* paragraph alone
C18_Witness ==
  /\ pc = "done"
  /\ text = << <<"c">>, CommandLine("\\begin", <<"tabular">>),
               CommandLine("\\end", <<"tabular">>) >>
  /\ Len(root.children) = 2
  /\ Renderings[2] = <<>>
  /\ output = <<"c">>

(***************************************************************************)
(* C19                                                                     *)
(***************************************************************************)
\* the names of env_map
KnownEnvironments ==
  {"itemize", "enumerate", "quote", "verbatim", "lstlisting", "table", "tabular"}

\* the lines are one environment of a name env_map does not know, opened on
\* the first line and closed on the last
IsUnknownEnvironment(lns) ==
  /\ Len(lns) >= 3
  /\ IsBeginLine(lns[1])
  /\ lns[1][3] \notin KnownEnvironments
  /\ IsEndLine(lns[Len(lns)])
  /\ lns[Len(lns)][3] = lns[1][3]
  /\ \A k \in 2..(Len(lns) - 1) : ~HasBegin(lns[k]) /\ EndNamesIn(lns[k]) = {}

\* C19: an environment of an unknown name gives a Paragraph node, and the
\* words of its body are in the output of convert.
C19_UnknownEnvironmentIsText ==
  (pc = "done" /\ IsUnknownEnvironment(lines)) =>
    /\ Len(root.children) = 1
    /\ root.children[1].node_type = "paragraph"
    /\ \A k \in 2..(Len(lines) - 1) : \A w \in Words(lines[k]) : Contains(output, w)

C22_ParseTerminates ==
  [][/\ (pc = "parse" /\ pc' = "parse") => (i' = i + 1 /\ i < Len(lines))
     /\ (pc = "parse" /\ pc' = "scan") =>
          (i' = i /\ i < Len(lines) /\ start_line' = i /\ scan_i' = i + 1)
     /\ (pc = "scan" /\ pc' = "scan") =>
          /\ i' = i
          /\ scan_i < Len(lines)
          /\ scan_i' = scan_i + 1 \/ (scan_i' = scan_i /\ depth' = 0)
     /\ (pc = "scan" /\ pc' = "parse") =>
          (i' >= i + 2 /\ i' <= Len(lines) + 1 /\ scan_i <= Len(lines))
     /\ (pc = "parse" /\ pc' = "done") => i >= Len(lines)]_vars

\* convert has returned for a text of an environment of one body line: the
\* main scan went from its first line to the line after its last
C22_Witness ==
  /\ pc = "done"
  /\ Len(lines) = 3
  /\ start_line = 0
  /\ end_line = 2
  /\ depth = 0
  /\ i = 3

(***************************************************************************)
(* C23                                                                     *)
(***************************************************************************)
\* a row node: a node whose content is a list of cells
IsRowNode(node) == node.content.t = "list"

\* a node two levels below a block: an inline node, a leaf
IsInlineLeaf(node) ==
  /\ node.node_type \notin {"document", "list_item"}
  /\ ~IsRowNode(node)
  /\ node.children = <<>>

\* a child of a block: a ListItem only under a list, a row only under a
\* Table and without children, and nothing but rows under a Table
IsChildOf(block, node) ==
  /\ node.node_type # "document"
  /\ node.node_type = "list_item" => IsListNode(block)
  /\ IsRowNode(node) => (block.node_type = "table" /\ node.children = <<>>)
  /\ block.node_type = "table" => IsRowNode(node)
  /\ \A m \in 1..Len(node.children) : IsInlineLeaf(node.children[m])

\* a child of the Document
IsBlock(node) ==
  /\ node.node_type \notin {"document", "list_item"}
  /\ ~IsRowNode(node)
  /\ \A j \in 1..Len(node.children) : IsChildOf(node, node.children[j])

\* C23: in every tree of parse the root is the only Document node, ListItem
\* nodes are children of ListItemize or ListEnumerate nodes only, and nodes
\* whose content is a list of cells are children of Table nodes only and
\* have no children.
C23_TreeShape ==
  /\ root.node_type = "document"
  /\ ~IsRowNode(root)
  /\ \A k \in 1..Len(root.children) : IsBlock(root.children[k])

\* parse has returned a Document whose one child is a Table of one row of
\* two cells
C23_Witness ==
  /\ pc = "done"
  /\ Len(root.children) = 1
  /\ root.children[1].node_type = "table"
  /\ Len(root.children[1].children) = 1
  /\ root.children[1].children[1].content = StrList(<< <<"a", "|">>, <<"b", "%", "c">> >>)
  /\ root.children[1].children[1].children = <<>>

(***************************************************************************)
(* C25                                                                     *)
(***************************************************************************)
\* the matches of the eight patterns in the text, in the order the patterns
\* are collected: display $$, inline $, display brackets, inline parens,
\* bold, italic, code, link
AllMatches(line) ==
  Tagged("math_display", FindIter("math_display", line))
    \o Tagged("math_inline", FindIter("math_inline", line))
    \o Tagged("math_display", FindIter("math_display_brackets", line))
    \o Tagged("math_inline", FindIter("math_inline_parens", line))
    \o Tagged("textbf", FindIter("textbf", line))
    \o Tagged("textit", FindIter("textit", line))
    \o Tagged("code", FindIter("texttt", line))
    \o Tagged("href", FindIter("href", line))

\* the place of the k-th match among the emitted nodes: after every match
\* of a smaller start and every earlier match of the same start
PlaceOf(matches, k) ==
  1 + Cardinality({j \in 1..Len(matches) :
                     \/ matches[j].start < matches[k].start
                     \/ matches[j].start = matches[k].start /\ j < k})

\* the construct nodes among the children of a paragraph
ConstructsOf(children) == SelectSeq(children, LAMBDA c : c.node_type # "text")

\* the constructs are the nodes of the matches, each at its place
EmittedInOrder(constructs, matches) ==
  /\ Len(constructs) = Len(matches)
  /\ \A k \in 1..Len(matches) : constructs[PlaceOf(matches, k)] = ElementNode(matches[k])

\* C25: the construct nodes of a paragraph are as many as the matches of
\* all eight patterns, overlapping ones included, in the order of their
\* start offsets, matches of equal start in the order of collection.
C25_NoDeduplication ==
  (pc = "done" /\ root.children # <<>>) =>
    EmittedInOrder(ConstructsOf(root.children[1].children), AllMatches(text[1]))

\* the paragraph of a bold construct that holds an inline formula, after a
\* link: three construct nodes, the formula emitted after the bold
C25_Witness ==
  /\ pc = "done"
  /\ text[1] = CommandLine("\\href", <<"u">>) \o <<"{", "l", "}">>
                 \o CommandLine("\\textbf", <<"$", "x", "$">>)
  /\ Len(ConstructsOf(root.children[1].children)) = 3
  /\ root.children[1].children[2].node_type = "bold"
  /\ root.children[1].children[3].node_type = "math_inline"

(***************************************************************************)
(* C26                                                                     *)
(***************************************************************************)
\* the first character of a line that is not whitespace is '%'
IsCommentLine(line) == Trimmed(line) # <<>> /\ Trimmed(line)[1] = "%"

\* a body line that is a row: it holds an '&' and is not a comment line
IsRowLine(line) == (\E j \in 1..Len(line) : line[j] = "&") /\ ~IsCommentLine(line)

\* the pieces of a line between its '&', each trimmed, from position k on
\* with the piece read so far
RECURSIVE PiecesFrom(_, _, _)
PiecesFrom(line, k, piece) ==
  IF k > Len(line) THEN <<Trimmed(piece)>>
  ELSE IF line[k] = "&" THEN <<Trimmed(piece)>> \o PiecesFrom(line, k + 1, <<>>)
  ELSE PiecesFrom(line, k + 1, Append(piece, line[k]))

\* the cells of the rows of the body lines from the k-th line of the text on
RECURSIVE RowsOfBody(_, _)
RowsOfBody(body, k) ==
  IF k > Len(body) THEN <<>>
  ELSE IF IsRowLine(body[k]) THEN <<PiecesFrom(body[k], 1, <<>>)>> \o RowsOfBody(body, k + 1)
  ELSE RowsOfBody(body, k + 1)

\* the cells of the row nodes of a Table node, in their order
CellsOfRows(table) == [k \in 1..Len(table.children) |-> table.children[k].content.cells]

\* the text is a tabular environment opened on its first line, with no other
\* marker before a closing line, and the lines after that one are blank
IsOneTable(lns) ==
  \A k \in 2..Len(lns) :
    \/ lns[k] \notin {CommandLine("\\begin", <<"tabular">>), CommandLine("\\end", <<"tabular">>)}
    \/ k = Len(lns) /\ lns[k] = CommandLine("\\end", <<"tabular">>)

\* the body of the one table of the text
BodyOf(lns) ==
  IF lns[Len(lns)] = CommandLine("\\end", <<"tabular">>) /\ Len(lns) >= 2
  THEN SubSeq(lns, 2, Len(lns) - 1) ELSE SubSeq(lns, 2, Len(lns))

\* C26: the Table node of a tabular body has one row node per body line
\* that holds an '&' and whose stripped text does not start with '%', in
\* the order of the lines, its cells the trimmed pieces between the '&' of
\* the line; no other body line gives a row.
C26_RowsOfBodyLines ==
  (TableRendered /\ IsOneTable(lines)) =>
    CellsOfRows(root.children[1]) = RowsOfBody(BodyOf(lines), 1)

\* a closed table whose body holds a comment line with an '&' and a row
\* line, comments preserved: one row
C26_Witness ==
  /\ TableRendered
  /\ preserve_comments
  /\ lines = <<CommandLine("\\begin", <<"tabular">>), <<" ", "%", "a", "&", "b">>,
               <<"a", " ", "&", " ", "b">>, CommandLine("\\end", <<"tabular">>)>>
  /\ CellsOfRows(root.children[1]) = << << <<"a">>, <<"b">> >> >>

(***************************************************************************)
(* C27                                                                     *)
(***************************************************************************)
\* what the handler of a child's kind returns for it: MathHandler.convert
\* for a math node, InlineHandler.convert for the others
HandlerString(child) ==
  IF child.node_type \in {"math_inline", "math_display"} THEN MathConvert(child)
  ELSE InlineConvert(child)

\* the strings of the handlers for a sequence of children, joined
HandlerStrings(children) ==
  Concat([k \in 1..Len(children) |-> HandlerString(children[k])])

\* the inline nodes of a list item: its children, or those of its Paragraph
InlineNodesOf(item) ==
  IF item.children[1].node_type = "paragraph" THEN item.children[1].children
  ELSE item.children

\* the marker a list of the given kind puts before an item
MarkerOf(node) == IF node.node_type = "list_enumerate" THEN <<"1", ".", " ">> ELSE <<"-", " ">>

\* C27: a paragraph is rendered as the strings InlineHandler.convert and
\* MathHandler.convert return for its children, joined, and a list item as
\* its marker followed by the strings they return for its inline nodes.
C27_RenderersAgreeWithHandlers ==
  (pc \in {"done", "handled"} /\ Len(root.children) = 1) =>
    /\ outcome = "returned"
    /\ root.children[1].node_type = "paragraph" =>
         output = HandlerStrings(root.children[1].children)
    /\ IsListNode(root.children[1]) =>
         output = MarkerOf(root.children[1])
                    \o HandlerStrings(InlineNodesOf(root.children[1].children[1]))

\* the list handler has rendered an item of a link without url attribute
\* and a formula
C27_Witness ==
  /\ pc = "handled"
  /\ root.children[1].node_type = "list_itemize"
  /\ root.children[1].children[1].children =
       <<ASTNode("link", Str(<<"x">>), <<>>, EmptyDict),
         ASTNode("math_inline", Str(<<"x">>), <<>>, EmptyDict)>>
  /\ output = <<"-", " ", "[", "x", "]", "(", ")", "\\(", "x", "\\)">>

(***************************************************************************)
(* C21                                                                     *)
(***************************************************************************)
\* both calls have returned
BothDone == pc = "done" /\ other.pc = "done"

\* the two calls were given the same text and the same options but math_mode
SameInput ==
  /\ text = other.text
  /\ preserve_comments = other.preserve_comments
  /\ heading_level_offset = other.heading_level_offset

ConvertTimers(scheduled) == {t \in scheduled : t.kind = "convert"}

\* C24: at most one conversion timer is pending after every step; a text
\* change with auto-convert on leaves exactly one, the one it scheduled,
\* due 500 ms later; and the timer that fires is the one the last change
\* scheduled, 500 ms after that change, with no other one left pending.
C24_Debounce ==
  [][/\ Cardinality(ConvertTimers(timers')) <= 1
     /\ (auto_convert /\ OnInputChange(GuiContents)) =>
          ConvertTimers(timers') =
            {[id |-> convert_timer', due |-> now + ConvertDelay, kind |-> "convert"]}
     /\ ConvertTimeout =>
          /\ ConvertTimers(timers') = {}
          /\ \A t \in ConvertTimers(timers) : t.id = convert_timer /\ t.due = now]_vars

\* after two changes of the text within the same 500 ms, the second one to
\* a word, one conversion has run and shown the word; no timer is pending
C24_Witness ==
  /\ handler = "idle"
  /\ convert_timer = 3
  /\ now = 1
  /\ next_id = 5
  /\ ConvertTimers(timers) = {}
  /\ input_text = <<"c", " ">>
  /\ output_text = <<"c">>

(***************************************************************************)
(* C28                                                                     *)
(***************************************************************************)
\* C28: whenever no callback is running the output widget is DISABLED and
\* its text is empty, the string the latest convert returned, or the error
\* message of the latest convert.
C28_OutputReadOnly ==
  handler = "idle" =>
    /\ output_state = "disabled"
    /\ \/ output_text = <<>>
       \/ outcome = "returned" /\ output_text = output
       \/ outcome = "raised" /\ output_text = <<"Conversion error: ", "e">>

\* a conversion has shown its result and clear_all has then emptied the
\* output widget, which is DISABLED
C28_Witness ==
  /\ handler = "idle"
  /\ status = [text |-> "Cleared", foreground |-> "blue"]
  /\ outcome = "returned"
  /\ output # <<>>
  /\ output_text = <<>>
  /\ output_state = "disabled"

(***************************************************************************)
(* C30                                                                     *)
(***************************************************************************)
\* C30: when a reset timer sets the status label to 'Ready', no message set
\* after the one the timer belongs to is cut short: every reset timer still
\* pending is due as well.
C30_StatusStaysThreeSeconds ==
  [][StatusTimeout => \A t \in timers' : t.kind = "reset" => t.due <= now]_vars

=============================================================================
